---- MODULE Spec2Model ----
(***************************************************************************)
(* Model of lala-core: the variable environment `VarEnv` (env.hpp), which  *)
(* maps logical variables to abstract variables (AVar) of several abstract *)
(* domains, with size-snapshots for backtracking.                          *)
(*                                                                         *)
(* C++ vectors are modelled by sequences; a C++ index i is the TLA+ index  *)
(* i + 1.  The integers stored in `avar2lvar` and in an AVar keep their    *)
(* C++ (0-based) values.                                                   *)
(***************************************************************************)
EXTENDS Integers, Sequences, FiniteSets, TLC

(* ---------------------------------------------------------------------- *)
(* Bounds of the model                                                     *)
(* ---------------------------------------------------------------------- *)

\* Largest number of abstract domains the environment may hold.
MaxDoms == 2

\* Largest number of snapshots the caller holds at a time.
MaxSnaps == 2

\* A caller that does not backtrack in order is followed up to this number of
\* restores.
MaxRestores == 2

\* Variable names and sorts the caller uses in formulas.
Names == {"x", "y"}

Sorts == {"Bool", "Int"}

(* ---------------------------------------------------------------------- *)
(* Values                                                                  *)
(* ---------------------------------------------------------------------- *)

\* The abstract type of a formula or variable that has no abstract domain.
UNTYPED == -1

\* thrust::optional<T>: the empty optional and an optional holding v.
None == <<>>

Some(v) == <<v>>

has_value(o) == o # <<>>

\* AVar(aty, vid): the abstract variable `vid` of the abstract domain `aty`.
AVar(aty, vid) == [aty |-> aty, vid |-> vid]

\* AVar(): the untyped abstract variable.
AVarUntyped == AVar(UNTYPED, -1)

is_untyped(av) == av.aty = UNTYPED

\* Variable(name, sort, av): a new record with the single abstract variable av.
Variable(name, sort, av) == [name |-> name, sort |-> sort, avars |-> <<av>>]

\* avar_of that never finds an abstract variable.
avar_of_none(var, aty) == None

\* avar_of that only looks at the first abstract variable of `var`.
avar_of_first_only(var, aty) ==
  IF Len(var.avars) >= 1 /\ var.avars[1].aty = aty
  THEN Some(var.avars[1])
  ELSE None

\* Variable::avar_of(aty): the first abstract variable of `var` in domain aty.
avar_of(var, aty) ==
  LET hits == {i \in 1..Len(var.avars) : var.avars[i].aty = aty}
  IN IF hits = {} THEN None
     ELSE Some(var.avars[CHOOSE i \in hits : \A j \in hits : i <= j])

\* IResult: a success holding an abstract variable, or an error.
Ok(av) == [ok |-> TRUE, value |-> Some(av), error |-> ""]

Err(kind) == [ok |-> FALSE, value |-> None, error |-> kind]

\* What an operation that cannot fail returned.
Returned(v) == [ok |-> TRUE, value |-> Some(v), error |-> ""]

\* The errors of VarEnv::interpret, named after their messages.
UntypedDeclaration == "Untyped abstract type"

SortMismatch == "Invalid redeclaration with different sort"

UndeclaredInDomain == "has not been declared in the abstract domain"

AmbiguousOccurrence == "is untyped, but exists in multiple abstract domains"

UndeclaredVariable == "Undeclared variable"

UndeclaredAbstractVariable == "Undeclared abstract variable"

UnsupportedFormula == "Unsupported formula"

(* ---------------------------------------------------------------------- *)
(* Formulas given to interpret                                             *)
(* ---------------------------------------------------------------------- *)

Types == {UNTYPED} \cup (0..(MaxDoms - 1))

E(name, sort, type) == [tag |-> "E", name |-> name, sort |-> sort, type |-> type]

LV(name, type) == [tag |-> "LV", name |-> name, type |-> type]

V(av) == [tag |-> "V", v |-> av]

Other == [tag |-> "Seq"]

AVars == {AVarUntyped} \cup
         {AVar(a, i) : a \in 0..(MaxDoms - 1), i \in 0..Cardinality(Names)}

\* The typed declarations of integer variables.
Declarations == {E(n, "Int", t) : n \in Names, t \in 0..(MaxDoms - 1)}

Formulas == {E(n, s, t) : n \in Names, s \in Sorts, t \in Types}
            \cup {LV(n, t) : n \in Names, t \in Types}
            \cup {V(av) : av \in AVars}
            \cup {Other}

(* ---------------------------------------------------------------------- *)
(* State                                                                   *)
(* ---------------------------------------------------------------------- *)

VARIABLES
  lvars,      \* VarEnv::lvars: the variable records
  avar2lvar,  \* VarEnv::avar2lvar: per domain, the record index of each slot
  snaps,      \* the snapshots the caller holds, oldest first; each with the
              \* environment at the time it was taken (history)
  aborted,    \* an assertion has failed
  last,       \* the last operation, its argument and what it returned
  old,        \* the environment before the last operation (history)
  restores,   \* how many times the caller restored out of order (history)
  issued,     \* the ids extends_abstract_dom has returned to a caller that
              \* keeps track of them (history): the largest one ever and the
              \* largest one since the last restore, both now and before the
              \* last call; -1 stands for none
  undone,     \* the restores of a caller that keeps a log of them (history):
              \* for each, the snapshot restored and how many were held
  call        \* the last call of an operation of a universe, of Dual or of
              \* IResult: its arguments and what it returned

vars == <<lvars, avar2lvar, snaps, aborted, last, old, restores, issued, undone, call>>

\* The variables of the environment and of its callers.
env_vars == <<lvars, avar2lvar, snaps, aborted, last, old, restores, issued, undone>>

Env(lv, a2l) == [lvars |-> lv, avar2lvar |-> a2l]

(* ---------------------------------------------------------------------- *)
(* VarEnv: lookups                                                         *)
(* ---------------------------------------------------------------------- *)

\* lvar_index_of(lv): the index of the first record named lv.
lvar_index_of(lvs, lv) ==
  LET hits == {i \in 1..Len(lvs) : lvs[i].name = lv}
  IN IF hits = {} THEN None
     ELSE Some((CHOOSE i \in hits : \A j \in hits : i <= j) - 1)

variable_of(lvs, lv) ==
  LET r == lvar_index_of(lvs, lv)
  IN IF has_value(r) THEN Some(lvs[r[1] + 1]) ELSE None

contains_name(lvs, lv) == has_value(variable_of(lvs, lv))

\* contains(AVar) that accepts the slot one past the end of the row.
contains_off_by_one(a2l, av) ==
  IF ~is_untyped(av)
  THEN Len(a2l) > av.aty /\ Len(a2l[av.aty + 1]) >= av.vid
  ELSE FALSE

contains(a2l, av) ==
  IF ~is_untyped(av)
  THEN Len(a2l) > av.aty /\ Len(a2l[av.aty + 1]) > av.vid
  ELSE FALSE

num_abstract_doms(a2l) == Len(a2l)

num_vars(lvs) == Len(lvs)

num_vars_in(a2l, aty) ==
  IF aty >= Len(a2l) THEN 0 ELSE Len(a2l[aty + 1])

(* ---------------------------------------------------------------------- *)
(* VarEnv: growth                                                          *)
(* ---------------------------------------------------------------------- *)

\* extends_abstract_dom that returns the size after the push.
extends_abstract_dom_size(a2l) ==
  [avar2lvar |-> Append(a2l, <<>>), ret |-> Len(a2l) + 1]

\* extends_abstract_dom(): one more empty row, whose index is returned.
extends_abstract_dom(a2l) ==
  [avar2lvar |-> Append(a2l, <<>>), ret |-> Len(a2l)]

RECURSIVE extends_abstract_doms(_, _)
extends_abstract_doms(a2l, aty) ==
  IF aty >= Len(a2l)
  THEN extends_abstract_doms(extends_abstract_dom(a2l).avar2lvar, aty)
  ELSE a2l

\* extends_vars that indexes a new handle of a known variable under the last
\* record instead of the variable's record.
extends_vars_last_record(lvs, a2l, aty, name, sort) ==
  LET a2 == extends_abstract_doms(a2l, aty)
      avar == AVar(aty, Len(a2[aty + 1]))
      lvar_idx == lvar_index_of(lvs, name)
  IN IF has_value(lvar_idx)
     THEN LET avar_opt == avar_of(lvs[lvar_idx[1] + 1], aty)
          IN IF has_value(avar_opt)
             THEN [lvars |-> lvs, avar2lvar |-> a2, ret |-> avar_opt[1]]
             ELSE [lvars |-> [lvs EXCEPT ![lvar_idx[1] + 1].avars = Append(@, avar)],
                   avar2lvar |-> [a2 EXCEPT ![aty + 1] = Append(@, Len(lvs) - 1)],
                   ret |-> avar]
     ELSE [lvars |-> Append(lvs, Variable(name, sort, avar)),
           avar2lvar |-> [a2 EXCEPT ![aty + 1] = Append(@, Len(lvs))],
           ret |-> avar]

\* extends_vars that replaces the handle list of a known variable by the new
\* handle instead of appending to it.
extends_vars_overwrites(lvs, a2l, aty, name, sort) ==
  LET a2 == extends_abstract_doms(a2l, aty)
      avar == AVar(aty, Len(a2[aty + 1]))
      lvar_idx == lvar_index_of(lvs, name)
  IN IF has_value(lvar_idx)
     THEN LET avar_opt == avar_of(lvs[lvar_idx[1] + 1], aty)
          IN IF has_value(avar_opt)
             THEN [lvars |-> lvs, avar2lvar |-> a2, ret |-> avar_opt[1]]
             ELSE [lvars |-> [lvs EXCEPT ![lvar_idx[1] + 1].avars = <<avar>>],
                   avar2lvar |-> [a2 EXCEPT ![aty + 1] = Append(@, lvar_idx[1])],
                   ret |-> avar]
     ELSE [lvars |-> Append(lvs, Variable(name, sort, avar)),
           avar2lvar |-> [a2 EXCEPT ![aty + 1] = Append(@, Len(lvs))],
           ret |-> avar]

extends_vars(lvs, a2l, aty, name, sort) ==
  LET a2 == extends_abstract_doms(a2l, aty)
      avar == AVar(aty, Len(a2[aty + 1]))
      lvar_idx == lvar_index_of(lvs, name)
  IN IF has_value(lvar_idx)
     THEN LET avar_opt == avar_of(lvs[lvar_idx[1] + 1], aty)
          IN IF has_value(avar_opt)
             THEN [lvars |-> lvs, avar2lvar |-> a2, ret |-> avar_opt[1]]
             ELSE [lvars |-> [lvs EXCEPT ![lvar_idx[1] + 1].avars = Append(@, avar)],
                   avar2lvar |-> [a2 EXCEPT ![aty + 1] = Append(@, lvar_idx[1])],
                   ret |-> avar]
     ELSE [lvars |-> Append(lvs, Variable(name, sort, avar)),
           avar2lvar |-> [a2 EXCEPT ![aty + 1] = Append(@, Len(lvs))],
           ret |-> avar]

(* ---------------------------------------------------------------------- *)
(* VarEnv: interpret                                                       *)
(* ---------------------------------------------------------------------- *)

\* The outcome of an interpretation: the environment after it, and the result.
Outcome(lvs, a2l, res) == [lvars |-> lvs, avar2lvar |-> a2l, res |-> res]

\* interpret_existential without the comparison of the sorts.
interpret_existential_any_sort(lvs, a2l, f) ==
  IF f.type = UNTYPED
  THEN Outcome(lvs, a2l, Err(UntypedDeclaration))
  ELSE LET r == extends_vars(lvs, a2l, f.type, f.name, f.sort)
       IN Outcome(r.lvars, r.avar2lvar, Ok(r.ret))

\* interpret_existential that compares the sorts only when the variable has no
\* abstract variable in the domain of the declaration.
interpret_existential_domain_first(lvs, a2l, f) ==
  IF f.type = UNTYPED
  THEN Outcome(lvs, a2l, Err(UntypedDeclaration))
  ELSE LET var == variable_of(lvs, f.name)
       IN IF /\ has_value(var)
             /\ ~has_value(avar_of(var[1], f.type))
             /\ var[1].sort # f.sort
          THEN Outcome(lvs, a2l, Err(SortMismatch))
          ELSE LET r == extends_vars(lvs, a2l, f.type, f.name, f.sort)
               IN Outcome(r.lvars, r.avar2lvar, Ok(r.ret))

\* interpret_existential that allocates the rows of the domain before it
\* compares the sorts.
interpret_existential_rows_first(lvs, a2l, f) ==
  IF f.type = UNTYPED
  THEN Outcome(lvs, a2l, Err(UntypedDeclaration))
  ELSE LET var == variable_of(lvs, f.name)
           a2 == extends_abstract_doms(a2l, f.type)
       IN IF has_value(var) /\ var[1].sort # f.sort
          THEN Outcome(lvs, a2, Err(SortMismatch))
          ELSE LET r == extends_vars(lvs, a2, f.type, f.name, f.sort)
               IN Outcome(r.lvars, r.avar2lvar, Ok(r.ret))

interpret_existential(lvs, a2l, f) ==
  IF f.type = UNTYPED
  THEN Outcome(lvs, a2l, Err(UntypedDeclaration))
  ELSE LET var == variable_of(lvs, f.name)
       IN IF has_value(var) /\ var[1].sort # f.sort
          THEN Outcome(lvs, a2l, Err(SortMismatch))
          ELSE LET r == extends_vars(lvs, a2l, f.type, f.name, f.sort)
               IN Outcome(r.lvars, r.avar2lvar, Ok(r.ret))

\* interpret_lv that resolves an untyped occurrence to the first abstract
\* variable, however many there are.
interpret_lv_first(lvs, a2l, f) ==
  LET var == variable_of(lvs, f.name)
  IN IF has_value(var)
     THEN IF f.type # UNTYPED
          THEN LET avar == avar_of(var[1], f.type)
               IN IF has_value(avar)
                  THEN Outcome(lvs, a2l, Ok(avar[1]))
                  ELSE Outcome(lvs, a2l, Err(UndeclaredInDomain))
          ELSE Outcome(lvs, a2l, Ok(var[1].avars[1]))
     ELSE Outcome(lvs, a2l, Err(UndeclaredVariable))

interpret_lv(lvs, a2l, f) ==
  LET var == variable_of(lvs, f.name)
  IN IF has_value(var)
     THEN IF f.type # UNTYPED
          THEN LET avar == avar_of(var[1], f.type)
               IN IF has_value(avar)
                  THEN Outcome(lvs, a2l, Ok(avar[1]))
                  ELSE Outcome(lvs, a2l, Err(UndeclaredInDomain))
          ELSE IF Len(var[1].avars) = 1
               THEN Outcome(lvs, a2l, Ok(var[1].avars[1]))
               ELSE Outcome(lvs, a2l, Err(AmbiguousOccurrence))
     ELSE Outcome(lvs, a2l, Err(UndeclaredVariable))

interpret(lvs, a2l, f) ==
  IF f.tag = "E" THEN interpret_existential(lvs, a2l, f)
  ELSE IF f.tag = "LV" THEN interpret_lv(lvs, a2l, f)
  ELSE IF f.tag = "V"
       THEN IF contains(a2l, f.v)
            THEN Outcome(lvs, a2l, Ok(f.v))
            ELSE Outcome(lvs, a2l, Err(UndeclaredAbstractVariable))
  ELSE Outcome(lvs, a2l, Err(UnsupportedFormula))

(* ---------------------------------------------------------------------- *)
(* VarEnv: snapshot and restore                                            *)
(* ---------------------------------------------------------------------- *)

snapshot(lvs, a2l) ==
  [lvars_snap |-> [i \in 1..Len(lvs) |-> Len(lvs[i].avars)],
   avar2lvar_snap |-> [i \in 1..Len(a2l) |-> Len(a2l[i])]]

\* battery::vector::resize(n): truncates, or grows by value-initialised
\* elements.
resize(s, n, dflt) == [i \in 1..n |-> IF i <= Len(s) THEN s[i] ELSE dflt]

\* The two assertions at the head of restore.
restore_asserts(lvs, a2l, snap) ==
  /\ Len(lvs) >= Len(snap.lvars_snap)
  /\ Len(a2l) >= Len(snap.avar2lvar_snap)

\* restore that forgets to shrink the handle lists of the surviving records.
restore_keeps_handles(lvs, a2l, snap) ==
  LET lv1 == SubSeq(lvs, 1, Len(snap.lvars_snap))
      a1 == SubSeq(a2l, 1, Len(snap.avar2lvar_snap))
      a2 == [i \in 1..Len(a1) |-> resize(a1[i], snap.avar2lvar_snap[i], 0)]
  IN Env(lv1, a2)

\* restore that forgets to shrink the rows of the surviving domains.
restore_keeps_slots(lvs, a2l, snap) ==
  LET lv1 == SubSeq(lvs, 1, Len(snap.lvars_snap))
      lv2 == [i \in 1..Len(lv1) |->
                [lv1[i] EXCEPT !.avars = resize(@, snap.lvars_snap[i], AVarUntyped)]]
      a1 == SubSeq(a2l, 1, Len(snap.avar2lvar_snap))
  IN Env(lv2, a1)

restore(lvs, a2l, snap) ==
  LET lv1 == SubSeq(lvs, 1, Len(snap.lvars_snap))
      lv2 == [i \in 1..Len(lv1) |->
                [lv1[i] EXCEPT !.avars = resize(@, snap.lvars_snap[i], AVarUntyped)]]
      a1 == SubSeq(a2l, 1, Len(snap.avar2lvar_snap))
      a2 == [i \in 1..Len(a1) |-> resize(a1[i], snap.avar2lvar_snap[i], 0)]
  IN Env(lv2, a2)

(* ---------------------------------------------------------------------- *)
(* The state machine                                                       *)
(* ---------------------------------------------------------------------- *)

NoArg == [tag |-> "none"]

Done(op, arg, res) == [op |-> op, arg |-> arg, res |-> res]

Init ==
  /\ lvars = <<>>
  /\ avar2lvar = <<>>
  /\ snaps = <<>>
  /\ aborted = FALSE
  /\ last = Done("init", NoArg, Err(""))
  /\ old = Env(<<>>, <<>>)
  /\ restores = 0
  /\ issued = [ever |-> -1, run |-> -1, ever_before |-> -1, run_before |-> -1]
  /\ undone = <<>>
  /\ call = [op |-> "none"]

Max(a, b) == IF a >= b THEN a ELSE b

\* The body of env.extends_abstract_dom().
DoNewDomain ==
  /\ ~aborted
  /\ restores < MaxRestores
  /\ Len(avar2lvar) < MaxDoms
  /\ LET r == extends_abstract_dom(avar2lvar)
     IN /\ avar2lvar' = r.avar2lvar
        /\ last' = Done("new_domain", NoArg, Returned(r.ret))
  /\ old' = Env(lvars, avar2lvar)
  /\ UNCHANGED <<lvars, snaps, aborted, restores, undone, call>>

\* env.extends_abstract_dom()
NewDomain ==
  /\ DoNewDomain
  /\ UNCHANGED issued

\* env.extends_abstract_dom(), the caller keeping track of the ids it got.
NewDomainTracked ==
  /\ DoNewDomain
  /\ LET id == last'.res.value[1]
     IN issued' = [ever |-> Max(issued.ever, id), run |-> Max(issued.run, id),
                   ever_before |-> issued.ever, run_before |-> issued.run]

\* env.interpret(f)
InterpretF(f) ==
  /\ ~aborted
  /\ restores < MaxRestores
  /\ LET r == interpret(lvars, avar2lvar, f)
     IN /\ lvars' = r.lvars
        /\ avar2lvar' = r.avar2lvar
        /\ last' = Done("interpret", f, r.res)
  /\ old' = Env(lvars, avar2lvar)
  /\ UNCHANGED <<snaps, aborted, restores, issued, undone, call>>

\* env.interpret(f) for any formula f.
Interpret == \E f \in Formulas : InterpretF(f)

\* env.interpret(f) for a typed declaration f of an integer variable.
Declare == \E f \in Declarations : InterpretF(f)

\* snap = env.snapshot()
Snapshot ==
  /\ ~aborted
  /\ restores < MaxRestores
  /\ Len(snaps) < MaxSnaps
  /\ snaps' = Append(snaps, [snap |-> snapshot(lvars, avar2lvar),
                             at |-> Env(lvars, avar2lvar)])
  /\ last' = Done("snapshot", NoArg, Err(""))
  /\ old' = Env(lvars, avar2lvar)
  /\ UNCHANGED <<lvars, avar2lvar, aborted, restores, issued, undone, call>>

\* The body of env.restore(snaps[i].snap).
DoRestore(i) ==
  /\ UNCHANGED call
  /\ issued' = [issued EXCEPT !.run = -1]
  /\ old' = Env(lvars, avar2lvar)
  /\ last' = Done("restore", [tag |-> "snap", index |-> i], Err(""))
  /\ IF restore_asserts(lvars, avar2lvar, snaps[i].snap)
     THEN LET r == restore(lvars, avar2lvar, snaps[i].snap)
          IN /\ lvars' = r.lvars
             /\ avar2lvar' = r.avar2lvar
             /\ UNCHANGED aborted
     ELSE /\ aborted' = TRUE
          /\ UNCHANGED <<lvars, avar2lvar>>

\* env.restore(snap) by a caller that backtracks: the snapshots taken after
\* `snap` belong to the abandoned branch and are dropped.
Restore ==
  /\ ~aborted
  /\ \E i \in 1..Len(snaps) :
       /\ DoRestore(i)
       /\ snaps' = SubSeq(snaps, 1, i)
       /\ UNCHANGED <<restores, undone>>

\* env.restore(snap) by a caller that backtracks and keeps a log of its
\* restores.
RestoreLogged ==
  /\ ~aborted
  /\ Len(undone) < MaxRestores
  /\ \E i \in 1..Len(snaps) :
       /\ DoRestore(i)
       /\ snaps' = SubSeq(snaps, 1, i)
       /\ undone' = Append(undone, [index |-> i, held |-> Len(snaps)])
       /\ UNCHANGED restores

\* env.restore(snap) with any snapshot the caller ever took, whichever branch
\* it was taken on.
RestoreAny ==
  /\ ~aborted
  /\ restores < MaxRestores
  /\ restores' = restores + 1
  /\ \E i \in 1..Len(snaps) :
       /\ DoRestore(i)
       /\ UNCHANGED <<snaps, undone>>

Next == NewDomain \/ Interpret \/ Snapshot \/ Restore

Spec == Init /\ [][Next]_vars

NextDoms == NewDomainTracked \/ Declare \/ Snapshot \/ Restore

SpecDoms == Init /\ [][NextDoms]_vars

NextAny == NewDomain \/ Declare \/ Snapshot \/ RestoreAny

SpecAny == Init /\ [][NextAny]_vars

NextUndo == NewDomain \/ Declare \/ Snapshot \/ RestoreLogged

SpecUndo == Init /\ [][NextUndo]_vars

(* ---------------------------------------------------------------------- *)
(* Observations used by the properties                                     *)
(* ---------------------------------------------------------------------- *)

\* The handles held by the record with C++ index r.
HandlesOfRecord(lvs, r) == {lvs[r + 1].avars[k] : k \in 1..Len(lvs[r + 1].avars)}

\* The C++ indices of the records, and of the rows of the index.
RecordIds(lvs) == 0..(Len(lvs) - 1)

DomainIds(a2l) == 0..(Len(a2l) - 1)

\* operator[](AVar), name_of and sort_of.
record_of(lvs, a2l, av) == lvs[a2l[av.aty + 1][av.vid + 1] + 1]

name_of(lvs, a2l, av) == record_of(lvs, a2l, av).name

sort_of(lvs, a2l, av) == record_of(lvs, a2l, av).sort

\* The snapshot the last restore was given, with the environment at the time
\* the snapshot was taken.
RestoredSnap == snaps[last.arg.index]

(* ---------------------------------------------------------------------- *)
(* C1: snapshot / restore inverse                                          *)
(* ---------------------------------------------------------------------- *)

\* C1: after restore(snap) by a caller that backtracks in order, num_vars(),
\* num_abstract_doms(), num_vars_in(d) for every d and variable_of(name) (name,
\* sort and the whole ordered handle list) for every name known when snap was
\* taken are what they were when snap was taken; the names and the handles
\* created after the snapshot are no longer contained.
C1_SnapshotRestoreInverse ==
  (last.op = "restore" /\ ~aborted) =>
    LET at == RestoredSnap.at
    IN /\ num_vars(lvars) = num_vars(at.lvars)
       /\ num_abstract_doms(avar2lvar) = num_abstract_doms(at.avar2lvar)
       /\ \A d \in 0..MaxDoms :
            num_vars_in(avar2lvar, d) = num_vars_in(at.avar2lvar, d)
       /\ \A n \in Names :
            IF contains_name(at.lvars, n)
            THEN variable_of(lvars, n) = variable_of(at.lvars, n)
            ELSE ~contains_name(lvars, n)
       /\ \A av \in AVars :
            ~contains(at.avar2lvar, av) => ~contains(avar2lvar, av)

\* A restore that rolled back a record, a handle of a surviving record and a
\* domain.
C1_Witness ==
  /\ last.op = "restore"
  /\ ~aborted
  /\ Len(old.lvars) > Len(lvars)
  /\ Len(old.avar2lvar) > Len(avar2lvar)
  /\ \E r \in 1..Len(lvars) : Len(old.lvars[r].avars) > Len(lvars[r].avars)

(* ---------------------------------------------------------------------- *)
(* C2: index invariant                                                     *)
(* ---------------------------------------------------------------------- *)

IndexInvariant(lvs, a2l) ==
  /\ \A d \in DomainIds(a2l) : \A slot \in 0..(Len(a2l[d + 1]) - 1) :
       LET r == a2l[d + 1][slot + 1]
       IN /\ r \in RecordIds(lvs)
          /\ {h \in HandlesOfRecord(lvs, r) : h.aty = d} = {AVar(d, slot)}
  /\ \A r \in RecordIds(lvs) : \A h \in HandlesOfRecord(lvs, r) :
       /\ h.aty \in DomainIds(a2l)
       /\ h.vid >= 0
       /\ h.vid < num_vars_in(a2l, h.aty)
       /\ a2l[h.aty + 1][h.vid + 1] = r

\* C2: in every state reached by new_domain, interpret, snapshot and restore of
\* snapshots of the current branch, every slot of every domain holds the index
\* of the record whose handle list has exactly that handle for the domain, and
\* every handle of every record is a slot of the index that leads back to the
\* record; so name_of(h) and sort_of(h) are the name and the sort h was
\* declared under.
C2_IndexInvariant ==
  /\ IndexInvariant(lvars, avar2lvar)
  /\ \A r \in RecordIds(lvars) : \A h \in HandlesOfRecord(lvars, r) :
       /\ name_of(lvars, avar2lvar, h) = lvars[r + 1].name
       /\ sort_of(lvars, avar2lvar, h) = lvars[r + 1].sort
  /\ (last.op = "interpret" /\ last.arg.tag = "E" /\ last.res.ok) =>
       /\ name_of(lvars, avar2lvar, last.res.value[1]) = last.arg.name
       /\ sort_of(lvars, avar2lvar, last.res.value[1]) = last.arg.sort

\* Two records, one of them with two handles, right after a restore that
\* removed a handle of the other.
C2_Witness ==
  /\ last.op = "restore"
  /\ Len(lvars) = 2
  /\ \E r \in 1..2 : Len(lvars[r].avars) = 2
  /\ \E r \in 1..2 : Len(old.lvars[r].avars) > Len(lvars[r].avars)
  /\ \E d \in DomainIds(avar2lvar) : Len(old.avar2lvar[d + 1]) > Len(avar2lvar[d + 1])

(* ---------------------------------------------------------------------- *)
(* C3: record invariant                                                    *)
(* ---------------------------------------------------------------------- *)

\* C3: every variable record has a non-empty handle list, no two handles of a
\* record have the same domain id, and no two records have the same name.
C3_RecordInvariant ==
  /\ \A r \in 1..Len(lvars) :
       /\ Len(lvars[r].avars) >= 1
       /\ \A j, k \in 1..Len(lvars[r].avars) :
            lvars[r].avars[j].aty = lvars[r].avars[k].aty => j = k
  /\ \A r, q \in 1..Len(lvars) : lvars[r].name = lvars[q].name => r = q

\* A declaration of a known variable in a further domain has just given the
\* second record its second handle.
C3_Witness ==
  /\ last.op = "interpret"
  /\ last.arg.tag = "E"
  /\ last.res.ok
  /\ Len(lvars) = 2
  /\ Len(old.lvars) = 2
  /\ Len(lvars[2].avars) = 2
  /\ Len(old.lvars[2].avars) = 1

(* ---------------------------------------------------------------------- *)
(* C4 to C8: what interpret returns                                        *)
(* ---------------------------------------------------------------------- *)

\* The last operation was interpret of a typed existential declaration.
DeclaredLast ==
  /\ last.op = "interpret"
  /\ last.arg.tag = "E"
  /\ last.arg.type # UNTYPED

\* The handles the variable `n` had in `lvs`, in the order of declaration.
HandleList(lvs, n) ==
  LET rs == {r \in 1..Len(lvs) : lvs[r].name = n}
  IN IF rs = {} THEN <<>> ELSE lvs[CHOOSE r \in rs : TRUE].avars

\* The sorts `n` is recorded with in `lvs`.
SortsOf(lvs, n) == {lvs[r].sort : r \in {q \in 1..Len(lvs) : lvs[q].name = n}}

\* The handles of `n` in the domain d.
HandlesIn(lvs, n, d) ==
  {h \in {HandleList(lvs, n)[k] : k \in 1..Len(HandleList(lvs, n))} : h.aty = d}

\* C4: interpreting the declaration (x, S, D) when x is already declared with
\* sort S and has a handle in D returns that handle and changes neither
\* num_vars(), num_vars_in(D), num_abstract_doms() nor the handle list of x.
C4_IdempotentRedeclaration ==
  (/\ DeclaredLast
   /\ SortsOf(old.lvars, last.arg.name) = {last.arg.sort}
   /\ HandlesIn(old.lvars, last.arg.name, last.arg.type) # {}) =>
    /\ last.res.ok
    /\ {last.res.value[1]} = HandlesIn(old.lvars, last.arg.name, last.arg.type)
    /\ num_vars(lvars) = num_vars(old.lvars)
    /\ num_vars_in(avar2lvar, last.arg.type) = num_vars_in(old.avar2lvar, last.arg.type)
    /\ num_abstract_doms(avar2lvar) = num_abstract_doms(old.avar2lvar)
    /\ HandleList(lvars, last.arg.name) = HandleList(old.lvars, last.arg.name)

\* The second variable of domain 0 has been declared again in domain 0.
C4_Witness ==
  /\ DeclaredLast
  /\ last.res.ok
  /\ last.arg.type = 0
  /\ HandlesIn(old.lvars, last.arg.name, 0) = {AVar(0, 1)}
  /\ SortsOf(old.lvars, last.arg.name) = {last.arg.sort}

\* C5: when x is declared with sort S and has no handle in D2, declaring x in
\* D2 with another sort fails with the sort error and leaves the environment
\* as it was, and declaring x in D2 with sort S returns the handle
\* (D2, num_vars_in(D2) before the call), does not grow num_vars() and appends
\* that handle to the handles of x, which are two, one in D1 and one in D2, if
\* x had the single handle of D1.
C5_SortStability ==
  (/\ DeclaredLast
   /\ SortsOf(old.lvars, last.arg.name) # {}
   /\ HandlesIn(old.lvars, last.arg.name, last.arg.type) = {}) =>
    LET x == last.arg.name
        D2 == last.arg.type
        new == AVar(D2, num_vars_in(old.avar2lvar, D2))
    IN IF SortsOf(old.lvars, x) # {last.arg.sort}
       THEN /\ last.res = Err(SortMismatch)
            /\ lvars = old.lvars
            /\ avar2lvar = old.avar2lvar
       ELSE /\ last.res = Ok(new)
            /\ num_vars(lvars) = num_vars(old.lvars)
            /\ HandleList(lvars, x) = Append(HandleList(old.lvars, x), new)
            /\ \A y \in Names \ {x} : HandleList(lvars, y) = HandleList(old.lvars, y)
            /\ Len(HandleList(old.lvars, x)) = 1 =>
                 /\ Len(HandleList(lvars, x)) = 2
                 /\ HandleList(lvars, x)[1].aty # D2
                 /\ HandleList(lvars, x)[2].aty = D2

\* A declaration with another sort in a second domain was refused.
C5_Witness ==
  /\ DeclaredLast
  /\ last.res = Err(SortMismatch)
  /\ Len(HandleList(old.lvars, last.arg.name)) = 1
  /\ HandlesIn(old.lvars, last.arg.name, last.arg.type) = {}

\* C6 as stated: a declaration of a variable that already has a handle in the
\* target domain returns that handle, whatever the sort it carries.
C6_SameDomainCheckFirst ==
  (/\ DeclaredLast
   /\ HandlesIn(old.lvars, last.arg.name, last.arg.type) # {}) =>
    /\ last.res.ok
    /\ last.res.value[1] \in HandlesIn(old.lvars, last.arg.name, last.arg.type)

\* C6, amended: the sort check comes first. A typed declaration of a known
\* variable fails with the sort error exactly when the stored sort differs
\* from the declared one, whether or not the variable has a handle in the
\* target domain, and then changes nothing; the handle the variable already
\* has in the target domain is returned only when the sorts are the same.
C6_SortCheckFirst ==
  DeclaredLast =>
    LET x == last.arg.name
        known == SortsOf(old.lvars, x) # {}
        differs == known /\ SortsOf(old.lvars, x) # {last.arg.sort}
    IN /\ (last.res = Err(SortMismatch)) <=> differs
       /\ differs => (lvars = old.lvars /\ avar2lvar = old.avar2lvar)
       /\ ~differs => last.res.ok
       /\ (~differs /\ HandlesIn(old.lvars, x, last.arg.type) # {}) =>
            last.res.value[1] \in HandlesIn(old.lvars, x, last.arg.type)

\* A declaration with another sort was refused although the variable has a
\* handle in the target domain.
C6_Witness ==
  /\ DeclaredLast
  /\ last.res = Err(SortMismatch)
  /\ HandlesIn(old.lvars, last.arg.name, last.arg.type) # {}

\* C7: an occurrence of an unknown name fails as undeclared; an occurrence of x
\* qualified by a domain d returns the handle x has in d and fails as
\* undeclared in the domain when x has none; an untyped occurrence of x returns
\* the handle of x when x has exactly one and fails as ambiguous when x has
\* several, in which case the occurrences qualified by each of the domains of
\* x still succeed.
C7_OccurrenceResolution ==
  (last.op = "interpret" /\ last.arg.tag = "LV") =>
    LET x == last.arg.name
        hs == HandleList(old.lvars, x)
    IN /\ SortsOf(old.lvars, x) = {} => last.res = Err(UndeclaredVariable)
       /\ (SortsOf(old.lvars, x) # {} /\ last.arg.type # UNTYPED) =>
            IF HandlesIn(old.lvars, x, last.arg.type) # {}
            THEN /\ last.res.ok
                 /\ {last.res.value[1]} = HandlesIn(old.lvars, x, last.arg.type)
            ELSE last.res = Err(UndeclaredInDomain)
       /\ (SortsOf(old.lvars, x) # {} /\ last.arg.type = UNTYPED) =>
            /\ Len(hs) = 1 => last.res = Ok(hs[1])
            /\ Len(hs) > 1 =>
                 /\ last.res = Err(AmbiguousOccurrence)
                 /\ \A k \in 1..Len(hs) :
                      interpret(lvars, avar2lvar, LV(x, hs[k].aty)).res = Ok(hs[k])

\* An untyped occurrence of a variable of two domains was refused.
C7_Witness ==
  /\ last.op = "interpret"
  /\ last.arg.tag = "LV"
  /\ last.arg.type = UNTYPED
  /\ last.res = Err(AmbiguousOccurrence)
  /\ Len(HandleList(lvars, last.arg.name)) = 2

\* C8: interpret of a handle h succeeds, returning h, if and only if h is typed,
\* h.aty < num_abstract_doms() and h.vid < num_vars_in(h.aty); otherwise it
\* fails as an undeclared abstract variable.  After a restore, a handle that
\* was not contained when the snapshot was taken does not resolve.
C8_ResolvedHandle ==
  /\ (last.op = "interpret" /\ last.arg.tag = "V") =>
       LET h == last.arg.v
           in_range == /\ h # AVarUntyped
                       /\ h.aty < num_abstract_doms(old.avar2lvar)
                       /\ h.vid < num_vars_in(old.avar2lvar, h.aty)
       IN /\ last.res.ok <=> in_range
          /\ last.res.ok => last.res = Ok(h)
          /\ ~last.res.ok => last.res = Err(UndeclaredAbstractVariable)
  /\ (last.op = "restore" /\ ~aborted) =>
       \A h \in AVars :
         (contains(old.avar2lvar, h) /\ ~contains(RestoredSnap.at.avar2lvar, h)) =>
           interpret(lvars, avar2lvar, V(h)).res = Err(UndeclaredAbstractVariable)

\* A restore has rolled back the second slot of a domain, which resolved before.
C8_Witness ==
  /\ last.op = "restore"
  /\ ~aborted
  /\ \E d \in DomainIds(avar2lvar) :
       /\ contains(old.avar2lvar, AVar(d, 1))
       /\ ~contains(avar2lvar, AVar(d, 1))
       /\ contains(avar2lvar, AVar(d, 0))

(* ---------------------------------------------------------------------- *)
(* C9: the assertions of restore                                           *)
(* ---------------------------------------------------------------------- *)

\* Some size of the environment `env` is smaller than the size `snap` records
\* for it: the number of records, the number of domains, the number of handles
\* of a record or the number of slots of a domain.
SmallerThanSnapshot(env, snap) ==
  \/ Len(env.lvars) < Len(snap.lvars_snap)
  \/ Len(env.avar2lvar) < Len(snap.avar2lvar_snap)
  \/ \E i \in 1..Len(env.lvars) :
       i <= Len(snap.lvars_snap) /\ Len(env.lvars[i].avars) < snap.lvars_snap[i]
  \/ \E i \in 1..Len(env.avar2lvar) :
       i <= Len(snap.avar2lvar_snap) /\ Len(env.avar2lvar[i]) < snap.avar2lvar_snap[i]

\* C9: restore(snap) called when some size of the environment is smaller than
\* the size the snapshot records for it fails an assertion, and a restore that
\* completes never breaks the index invariant.
C9_RestoreAssertsEverywhere ==
  last.op = "restore" =>
    /\ SmallerThanSnapshot(old, RestoredSnap.snap) => aborted
    /\ (~aborted /\ IndexInvariant(old.lvars, old.avar2lvar)) =>
         IndexInvariant(lvars, avar2lvar)

(* ---------------------------------------------------------------------- *)
(* C10: new_domain                                                         *)
(* ---------------------------------------------------------------------- *)

\* What extends_abstract_dom does in every call: it does not fail, returns
\* num_abstract_doms() before the call, which no row and no handle uses, and
\* appends one empty row, leaving the records and the other rows alone.
NewDomainEffect ==
  LET id == last.res.value[1]
  IN /\ last.res.ok
     /\ ~aborted
     /\ id = num_abstract_doms(old.avar2lvar)
     /\ id \notin DomainIds(old.avar2lvar)
     /\ \A r \in RecordIds(old.lvars) : \A h \in HandlesOfRecord(old.lvars, r) :
          h.aty # id
     /\ avar2lvar = Append(old.avar2lvar, <<>>)
     /\ lvars = old.lvars
     /\ num_vars_in(avar2lvar, id) = 0

\* C10 as stated: new_domain has the effect above, and the ids it returns are
\* strictly increasing over any sequence of operations.
C10_NewDomainMonotonic ==
  last.op = "new_domain" =>
    /\ NewDomainEffect
    /\ last.res.value[1] > issued.ever_before

\* C10, amended: new_domain has the effect above, and the ids it returns are
\* strictly increasing over any sequence of operations without a restore.
C10_NewDomainMonotonicBetweenRestores ==
  last.op = "new_domain" =>
    /\ NewDomainEffect
    /\ last.res.value[1] > issued.run_before

\* The second call of new_domain in a row, with a variable declared.
C10_Witness ==
  /\ last.op = "new_domain"
  /\ issued.run_before = 0
  /\ last.res.value[1] = 1
  /\ Len(lvars) >= 1

(* ---------------------------------------------------------------------- *)
(* C11: append-only lifecycle                                              *)
(* ---------------------------------------------------------------------- *)

\* s is a prefix of t.
IsPrefix(s, t) == Len(s) <= Len(t) /\ SubSeq(t, 1, Len(s)) = s

\* Nothing of the environment `before` is lost or changed in `after`: the
\* counts do not decrease, every row and every handle list keeps its prefix,
\* and every record keeps its name and its sort.
GrewFrom(before, after) ==
  /\ num_vars(after.lvars) >= num_vars(before.lvars)
  /\ num_abstract_doms(after.avar2lvar) >= num_abstract_doms(before.avar2lvar)
  /\ \A d \in 0..MaxDoms :
       num_vars_in(after.avar2lvar, d) >= num_vars_in(before.avar2lvar, d)
  /\ \A d \in 1..Len(before.avar2lvar) :
       d <= Len(after.avar2lvar) /\ IsPrefix(before.avar2lvar[d], after.avar2lvar[d])
  /\ \A r \in 1..Len(before.lvars) :
       /\ r <= Len(after.lvars)
       /\ after.lvars[r].name = before.lvars[r].name
       /\ after.lvars[r].sort = before.lvars[r].sort
       /\ Len(after.lvars[r].avars) >= Len(before.lvars[r].avars)
       /\ IsPrefix(before.lvars[r].avars, after.lvars[r].avars)

\* The last operation was a successful declaration.
DeclaredOk == last.op = "interpret" /\ last.arg.tag = "E" /\ last.res.ok

\* Records are created one at a time, by a successful declaration of a name
\* that was not known.
RecordsOnlyByFirstDeclaration ==
  Len(lvars) > Len(old.lvars) =>
    /\ DeclaredOk
    /\ ~contains_name(old.lvars, last.arg.name)
    /\ Len(lvars) = Len(old.lvars) + 1
    /\ lvars[Len(lvars)].name = last.arg.name

\* Every operation but restore only appends, and restore never appends.
OnlyRestoreTruncates ==
  /\ last.op # "restore" => GrewFrom(old, Env(lvars, avar2lvar))
  /\ last.op = "restore" => GrewFrom(Env(lvars, avar2lvar), old)

\* C11 as stated: records and rows are created only by interpret on first
\* sight of a name or of a domain; no operation but restore makes a count
\* decrease or changes the name, the sort or the existing handles of a record,
\* and only restore truncates.
C11_CreatedOnlyByInterpret ==
  /\ RecordsOnlyByFirstDeclaration
  /\ Len(avar2lvar) > Len(old.avar2lvar) =>
       DeclaredOk /\ last.arg.type >= Len(old.avar2lvar)
  /\ OnlyRestoreTruncates

\* C11, amended: records are created only by interpret on first sight of a
\* name; rows are created by new_domain, one per call, and by interpret of a
\* declaration in a domain the index has no row for (the rows up to that
\* domain); no operation but restore makes a count decrease or changes the
\* name, the sort or the existing handles of a record, and only restore
\* truncates.
C11_AppendOnly ==
  /\ RecordsOnlyByFirstDeclaration
  /\ Len(avar2lvar) > Len(old.avar2lvar) =>
       \/ last.op = "new_domain" /\ Len(avar2lvar) = Len(old.avar2lvar) + 1
       \/ /\ DeclaredOk
          /\ last.arg.type >= Len(old.avar2lvar)
          /\ Len(avar2lvar) = last.arg.type + 1
  /\ OnlyRestoreTruncates

\* A declaration that created a record and two rows at once.
C11_Witness ==
  /\ DeclaredOk
  /\ Len(lvars) = Len(old.lvars) + 1
  /\ Len(avar2lvar) = Len(old.avar2lvar) + 2

(* ---------------------------------------------------------------------- *)
(* C12: undo stack                                                         *)
(* ---------------------------------------------------------------------- *)

\* C12: whatever was declared, snapshot and restored before, every restore of
\* a snapshot of the current branch (the latest one, an older one directly,
\* or one that was restored before) completes and leaves the environment
\* exactly as it was when that snapshot was taken, the snapshot stays held,
\* and every snapshot still held can be restored from the state reached, to
\* the environment it was taken in.
C12_UndoStack ==
  /\ last.op = "restore" =>
       /\ ~aborted
       /\ Env(lvars, avar2lvar) = RestoredSnap.at
       /\ Len(snaps) = last.arg.index
  /\ \A j \in 1..Len(snaps) :
       /\ restore_asserts(lvars, avar2lvar, snaps[j].snap)
       /\ restore(lvars, avar2lvar, snaps[j].snap) = snaps[j].at

\* The first snapshot restored for the second time, the first time past a
\* later snapshot, the second time rolling back a record declared after the
\* first restore.
C12_Witness ==
  /\ last.op = "restore"
  /\ undone = <<[index |-> 1, held |-> 2], [index |-> 1, held |-> 1]>>
  /\ Len(old.lvars) > Len(lvars)
  /\ Len(lvars) >= 1

(* ---------------------------------------------------------------------- *)
(* PreB: the Boolean pre-universe (false below true, true standing for     *)
(* "unknown")                                                              *)
(* ---------------------------------------------------------------------- *)

\* Formulas given to a universe: Boolean and integer constants, declarations,
\* occurrences and anything else.
B(b) == [tag |-> "B", b |-> b]

Z(z) == [tag |-> "Z", z |-> z]

USorts == {"Bool", "Int", "Real"}

UDeclarations == {E(n, s, 0) : n \in Names, s \in USorts}

UFormulas ==
  {B(b) : b \in BOOLEAN} \cup {Z(z) : z \in 0..1} \cup {LV("x", UNTYPED), Other}

\* What an interpretation function leaves behind: the Boolean it returns, the
\* value of its output parameter and the diagnostics.
Interpreted(ret, out, diagnostics) ==
  [ret |-> ret, out |-> out, diagnostics |-> diagnostics]

\* The diagnostic an interpretation records: fatal, with the name of the
\* universe, a message (and the variable the message names, or "") and the
\* formula.
IDiagnostic(source, msg, vname, f) ==
  [fatal |-> TRUE, source |-> source, msg |-> msg, vname |-> vname, f |-> f]

\* INTERPRETATION_ERROR(MSG): records the diagnostic when diagnose is set;
\* the function goes on.
INTERPRETATION_ERROR(diagnose, diagnostics, d) ==
  IF diagnose THEN Append(diagnostics, d) ELSE diagnostics

\* RETURN_INTERPRETATION_ERROR(MSG): records the diagnostic when diagnose is
\* set and returns false, the output parameter untouched.
RETURN_INTERPRETATION_ERROR(diagnose, out, diagnostics, d) ==
  Interpreted(FALSE, out, INTERPRETATION_ERROR(diagnose, diagnostics, d))

PreB_name == "B"

PreB_bot == FALSE

PreB_top == TRUE

\* PreB::interpret_tell<diagnose, F, dualize>(f, tell, diagnostics)
PreB_interpret_tell(diagnose, dualize, f, tell, diagnostics) ==
  IF f.tag = "B"
  THEN LET rejected == IF dualize THEN ~f.b ELSE f.b
           d1 == IF rejected
                 THEN INTERPRETATION_ERROR(diagnose, diagnostics,
                        IDiagnostic(PreB_name, "ConstantOverapproximated", "", f))
                 ELSE diagnostics
       IN Interpreted(TRUE, f.b, d1)
  ELSE RETURN_INTERPRETATION_ERROR(diagnose, tell, diagnostics,
         IDiagnostic(PreB_name, "OnlyBoolConstants", "", f))

\* PreB::interpret_ask<diagnose, F, dualize>(f, ask, diagnostics)
PreB_interpret_ask(diagnose, dualize, f, ask, diagnostics) ==
  PreB_interpret_tell(diagnose, dualize, f, ask, diagnostics)

\* A call of an interpretation function of a universe. The functions of the
\* universes are static and keep no state: each behaviour makes one call.
Called(op, univ, diagnose, dualize, f, out, r) ==
  [op |-> op, univ |-> univ, diagnose |-> diagnose, dualize |-> dualize,
   f |-> f, before |-> out, res |-> r]

\* PreB::interpret_tell on any formula, flags and initial output value.
InterpretTell ==
  /\ call.op = "none"
  /\ \E diagnose \in BOOLEAN, dualize \in BOOLEAN, f \in UFormulas, tell \in BOOLEAN :
       call' = Called("interpret_tell", "PreB", diagnose, dualize, f, tell,
                      PreB_interpret_tell(diagnose, dualize, f, tell, <<>>))
  /\ UNCHANGED env_vars

\* PreB::interpret_ask on any formula, flags and initial output value.
InterpretAsk ==
  /\ call.op = "none"
  /\ \E diagnose \in BOOLEAN, dualize \in BOOLEAN, f \in UFormulas, ask \in BOOLEAN :
       call' = Called("interpret_ask", "PreB", diagnose, dualize, f, ask,
                      PreB_interpret_ask(diagnose, dualize, f, ask, <<>>))
  /\ UNCHANGED env_vars

(* ---------------------------------------------------------------------- *)
(* C13: approximation rejection in PreB                                    *)
(* ---------------------------------------------------------------------- *)

\* C13: PreB::interpret_tell without dualize succeeds on the constant false
\* and sets the told value to false, fails (does not return success) on the
\* constant true, and fails on every formula that is not a Boolean constant.
C13_RejectsTrue ==
  (call.op = "interpret_tell" /\ ~call.dualize) =>
    /\ call.f = B(FALSE) => (call.res.ret /\ call.res.out = FALSE)
    /\ call.f = B(TRUE) => ~call.res.ret
    /\ call.f.tag # "B" => ~call.res.ret

(* ---------------------------------------------------------------------- *)
(* C14: dualize in PreB                                                    *)
(* ---------------------------------------------------------------------- *)

\* The Boolean constants an interpretation function of PreB accepts.
AcceptedConstants(op, diagnose, dualize, out) ==
  {b \in BOOLEAN :
     IF op = "interpret_ask"
     THEN PreB_interpret_ask(diagnose, dualize, B(b), out, <<>>).ret
     ELSE PreB_interpret_tell(diagnose, dualize, B(b), out, <<>>).ret}

\* C14: interpret_ask returns what interpret_tell returns for every formula
\* and flag; with dualize both succeed on the constant true with value true
\* and fail on the constant false; for each value of dualize exactly one of
\* the two Boolean constants is accepted.
C14_DualizeFlipsSafeConstant ==
  call.op \in {"interpret_tell", "interpret_ask"} =>
    /\ call.res = PreB_interpret_tell(call.diagnose, call.dualize, call.f,
                                      call.before, <<>>)
    /\ call.dualize =>
         /\ call.f = B(TRUE) => (call.res.ret /\ call.res.out = TRUE)
         /\ call.f = B(FALSE) => ~call.res.ret
    /\ Cardinality(AcceptedConstants(call.op, call.diagnose, call.dualize,
                                     call.before)) = 1

(* ---------------------------------------------------------------------- *)
(* C15: interpret_type                                                     *)
(* ---------------------------------------------------------------------- *)

\* PreB::interpret_type that ignores dualize.
PreB_interpret_type_bot(diagnose, dualize, f, k, diagnostics) ==
  IF f.sort = "Bool"
  THEN Interpreted(TRUE, PreB_bot, diagnostics)
  ELSE RETURN_INTERPRETATION_ERROR(diagnose, k, diagnostics,
         IDiagnostic(PreB_name, "TypeMustBeBool", f.name, f))

\* PreB::interpret_type<diagnose, F, dualize>(f, k, diagnostics)
PreB_interpret_type(diagnose, dualize, f, k, diagnostics) ==
  IF f.sort = "Bool"
  THEN Interpreted(TRUE, IF dualize THEN PreB_top ELSE PreB_bot, diagnostics)
  ELSE RETURN_INTERPRETATION_ERROR(diagnose, k, diagnostics,
         IDiagnostic(PreB_name, "TypeMustBeBool", f.name, f))

PreBInc_name == "BInc"

PreBInc_bot == FALSE

PreBInc_top == TRUE

\* IError<F>(fatal, name, description, f), with the variable the description
\* names.
IError(fatal, source, msg, vname, f) ==
  [fatal |-> fatal, source |-> source, msg |-> msg, vname |-> vname, f |-> f]

\* PreBInc::interpret_type(f): an IResult holding the initial value or the
\* error.
PreBInc_interpret_type(f) ==
  IF f.sort = "Int"
  THEN Ok(PreBInc_bot)
  ELSE Err(IError(TRUE, PreBInc_name, "TypeMustBeInt", f.name, f))

\* PreB::interpret_type on any declaration, flags and initial output value.
InterpretTypePreB ==
  /\ call.op = "none"
  /\ \E diagnose \in BOOLEAN, dualize \in BOOLEAN, f \in UDeclarations, k \in BOOLEAN :
       call' = Called("interpret_type", "PreB", diagnose, dualize, f, k,
                      PreB_interpret_type(diagnose, dualize, f, k, <<>>))
  /\ UNCHANGED env_vars

\* PreBInc::interpret_type on any declaration.
InterpretTypePreBInc ==
  /\ call.op = "none"
  /\ \E f \in UDeclarations :
       call' = [op |-> "interpret_type", univ |-> "PreBInc", f |-> f,
                res |-> PreBInc_interpret_type(f)]
  /\ UNCHANGED env_vars

NextPreB ==
  InterpretTell \/ InterpretAsk \/ InterpretTypePreB \/ InterpretTypePreBInc

SpecPreB == Init /\ [][NextPreB]_vars

\* C15: interpret_type of a declaration succeeds iff the declared sort is the
\* one the universe accepts, Bool for PreB and Int for PreBInc; on success the
\* initial value is bot(), or top() for PreB with dualize (PreBInc has no such
\* flag); on mismatch PreB returns false, leaves the output value as it was
\* and the diagnostic it records names the variable, and PreBInc returns a
\* fatal error that names the variable.
C15_InterpretType ==
  call.op = "interpret_type" =>
    IF call.univ = "PreB"
    THEN /\ call.res.ret <=> call.f.sort = "Bool"
         /\ call.res.ret =>
              /\ call.res.out = IF call.dualize THEN PreB_top ELSE PreB_bot
              /\ call.res.diagnostics = <<>>
         /\ ~call.res.ret =>
              /\ call.res.out = call.before
              /\ Len(call.res.diagnostics) = IF call.diagnose THEN 1 ELSE 0
              /\ \A i \in 1..Len(call.res.diagnostics) :
                   /\ call.res.diagnostics[i].fatal
                   /\ call.res.diagnostics[i].vname = call.f.name
    ELSE /\ call.res.ok <=> call.f.sort = "Int"
         /\ call.res.ok => call.res.value = Some(PreBInc_bot)
         /\ ~call.res.ok =>
              /\ call.res.value = None
              /\ call.res.error.fatal
              /\ call.res.error.vname = call.f.name

\* A declaration of the wrong sort given to PreB::interpret_type with dualize
\* and an output value that is not the one a success would set.
C15_Witness ==
  /\ call.op = "interpret_type"
  /\ call.univ = "PreB"
  /\ call.dualize
  /\ call.diagnose
  /\ call.f.sort = "Int"
  /\ call.before = FALSE
  /\ ~call.res.ret

(* ---------------------------------------------------------------------- *)
(* The lattice operations of the pre-universes                             *)
(* ---------------------------------------------------------------------- *)

\* The width of the machine integer type the integer universes are
\* instantiated with.
IntBits == 3

\* Limits<ValueType>::bot() and Limits<ValueType>::top()
Limits_bot == -(2 ^ (IntBits - 1))

Limits_top == 2 ^ (IntBits - 1) - 1

\* The values of ValueType.
ValueType == Limits_bot..Limits_top

\* enum Sign
Signs == {"SNEG", "SPOS", "SIGNED", "BOUNDED"}

Min(a, b) == IF a <= b THEN a ELSE b

\* PreB::join with the body of PreB::meet.
PreB_join_and(x, y) == x /\ y

PreB_join(x, y) == x \/ y

PreB_meet(x, y) == x /\ y

PreB_order(x, y) == ~x \/ y

PreB_strict_order(x, y) == ~x /\ y

\* PreB::next that leaves its argument alone.
PreB_next_same(x) == x

PreB_next(x) == TRUE

PreB_prev(x) == FALSE

PreBInc_join(x, y) == x \/ y

PreBInc_meet(x, y) == x /\ y

PreBInc_order(x, y) == ~x \/ y

PreBInc_strict_order(x, y) == ~x /\ y

PreBInc_next(x) == TRUE

PreBInc_prev(x) == FALSE

ZDec_bot(sign) == IF sign = "SNEG" THEN 0 ELSE Limits_top

ZDec_top(sign) == IF sign = "SPOS" THEN 0 ELSE Limits_bot

\* ZDecUniverse::next: the value of i - 1 is the mathematical one; it is not
\* a value of ValueType when the subtraction overflows.
ZDec_next(sign, i) ==
  IF i = ZDec_top(sign) \/ (i = ZDec_bot(sign) /\ (sign = "SIGNED" \/ sign = "SPOS"))
  THEN i
  ELSE i - 1

\* ZDecUniverse::join with the body of ZIncUniverse::join.
ZDec_join_max(x, y) == Max(x, y)

ZDec_join(x, y) == Min(x, y)

ZDec_meet(x, y) == Max(x, y)

ZDec_order(x, y) == x >= y

ZDec_strict_order(x, y) == x > y

ZInc_bot(sign) == IF sign = "SPOS" THEN 0 ELSE Limits_bot

ZInc_top(sign) == IF sign = "SNEG" THEN 0 ELSE Limits_top

\* ZIncUniverse::next that steps from every value but top.
ZInc_next_from_bot(sign, i) ==
  IF i = ZInc_top(sign) THEN i ELSE i + 1

\* ZIncUniverse::next: the value of i + 1 is the mathematical one; it is not
\* a value of ValueType when the addition overflows.
ZInc_next(sign, i) ==
  IF i = ZInc_top(sign) \/ (i = ZInc_bot(sign) /\ (sign = "SIGNED" \/ sign = "SNEG"))
  THEN i
  ELSE i + 1

ZInc_join(x, y) == Max(x, y)

ZInc_meet(x, y) == Min(x, y)

ZInc_order(x, y) == x <= y

ZInc_strict_order(x, y) == x < y

\* A shipped pre-universe: its name and, for the integer ones, its sign.
Universe(name, sign) == [name |-> name, sign |-> sign]

BoolUniverses == {Universe(n, "BOUNDED") : n \in {"PreB", "PreBInc"}}

ZUniverses == {Universe(n, s) : n \in {"ZInc", "ZDec"}, s \in Signs}

Universes == BoolUniverses \cup ZUniverses

\* The operations of the universe u.
U_bot(u) ==
  CASE u.name = "PreB" -> PreB_bot
    [] u.name = "PreBInc" -> PreBInc_bot
    [] u.name = "ZInc" -> ZInc_bot(u.sign)
    [] u.name = "ZDec" -> ZDec_bot(u.sign)

U_top(u) ==
  CASE u.name = "PreB" -> PreB_top
    [] u.name = "PreBInc" -> PreBInc_top
    [] u.name = "ZInc" -> ZInc_top(u.sign)
    [] u.name = "ZDec" -> ZDec_top(u.sign)

U_join(u, x, y) ==
  CASE u.name = "PreB" -> PreB_join(x, y)
    [] u.name = "PreBInc" -> PreBInc_join(x, y)
    [] u.name = "ZInc" -> ZInc_join(x, y)
    [] u.name = "ZDec" -> ZDec_join(x, y)

U_meet(u, x, y) ==
  CASE u.name = "PreB" -> PreB_meet(x, y)
    [] u.name = "PreBInc" -> PreBInc_meet(x, y)
    [] u.name = "ZInc" -> ZInc_meet(x, y)
    [] u.name = "ZDec" -> ZDec_meet(x, y)

U_order(u, x, y) ==
  CASE u.name = "PreB" -> PreB_order(x, y)
    [] u.name = "PreBInc" -> PreBInc_order(x, y)
    [] u.name = "ZInc" -> ZInc_order(x, y)
    [] u.name = "ZDec" -> ZDec_order(x, y)

U_strict_order(u, x, y) ==
  CASE u.name = "PreB" -> PreB_strict_order(x, y)
    [] u.name = "PreBInc" -> PreBInc_strict_order(x, y)
    [] u.name = "ZInc" -> ZInc_strict_order(x, y)
    [] u.name = "ZDec" -> ZDec_strict_order(x, y)

U_next(u, x) ==
  CASE u.name = "PreB" -> PreB_next(x)
    [] u.name = "PreBInc" -> PreBInc_next(x)
    [] u.name = "ZInc" -> ZInc_next(u.sign, x)
    [] u.name = "ZDec" -> ZDec_next(u.sign, x)

U_prev(u, x) ==
  CASE u.name = "PreB" -> PreB_prev(x)
    [] u.name = "PreBInc" -> PreBInc_prev(x)

\* The values an operation of u can be given: any value of the value type.
Values(u) == IF u \in BoolUniverses THEN BOOLEAN ELSE ValueType

\* The values of the universe u: the Booleans, and the integers of the sign
\* of u (non-positive for SNEG, non-negative for SPOS, any otherwise).
Elements(u) ==
  IF u \in BoolUniverses
  THEN BOOLEAN
  ELSE {i \in ValueType : /\ u.sign = "SNEG" => i <= 0
                          /\ u.sign = "SPOS" => i >= 0}

\* join, meet, order and strict_order of a universe applied to three of its
\* values.
LatticeOps ==
  /\ call.op = "none"
  /\ \E u \in Universes : \E x \in Elements(u), y \in Elements(u), z \in Elements(u) :
       call' = [op |-> "lattice", u |-> u, x |-> x, y |-> y, z |-> z,
                join |-> U_join(u, x, y), meet |-> U_meet(u, x, y),
                order |-> U_order(u, x, y),
                strict_order |-> U_strict_order(u, x, y)]
  /\ UNCHANGED env_vars

\* next of a Boolean universe applied to a value.
NextBool ==
  /\ call.op = "none"
  /\ \E u \in BoolUniverses : \E x \in Values(u) :
       call' = [op |-> "next", u |-> u, x |-> x, res |-> U_next(u, x)]
  /\ UNCHANGED env_vars

\* prev of a Boolean universe applied to a value.
PrevBool ==
  /\ call.op = "none"
  /\ \E u \in BoolUniverses : \E x \in Values(u) :
       call' = [op |-> "prev", u |-> u, x |-> x, res |-> U_prev(u, x)]
  /\ UNCHANGED env_vars

\* next of an integer universe applied to any value of the value type. When
\* the arithmetic overflows the behaviour is undefined: any value of the type
\* may come back.
NextZ ==
  /\ call.op = "none"
  /\ \E u \in ZUniverses : \E x \in Values(u) :
       LET r == U_next(u, x)
       IN \E res \in (IF r \in ValueType THEN {r} ELSE ValueType) :
            call' = [op |-> "next", u |-> u, x |-> x, res |-> res,
                     overflow |-> r \notin ValueType]
  /\ UNCHANGED env_vars

NextLattice == LatticeOps \/ NextBool \/ PrevBool \/ NextZ

SpecLattice == Init /\ [][NextLattice]_vars

(* ---------------------------------------------------------------------- *)
(* C16: lattice laws                                                       *)
(* ---------------------------------------------------------------------- *)

\* C16: for PreB, PreBInc, ZIncUniverse and ZDecUniverse of every sign and
\* all values x, y, z of the universe, join and meet are idempotent,
\* commutative and associative; order(bot(), x) and order(x, top()) hold;
\* order(x, y) holds iff join(x, y) = y iff meet(x, y) = x; strict_order(x, y)
\* holds iff order(x, y) and x # y; top is absorbing for join and neutral for
\* meet, bot is absorbing for meet and neutral for join.
C16_LatticeLaws ==
  call.op = "lattice" =>
    LET u == call.u
        x == call.x
        y == call.y
        z == call.z
    IN /\ U_join(u, x, x) = x
       /\ U_meet(u, x, x) = x
       /\ call.join = U_join(u, y, x)
       /\ call.meet = U_meet(u, y, x)
       /\ U_join(u, call.join, z) = U_join(u, x, U_join(u, y, z))
       /\ U_meet(u, call.meet, z) = U_meet(u, x, U_meet(u, y, z))
       /\ U_order(u, U_bot(u), x)
       /\ U_order(u, x, U_top(u))
       /\ call.order <=> call.join = y
       /\ call.order <=> call.meet = x
       /\ call.strict_order <=> (call.order /\ x # y)
       /\ U_join(u, U_top(u), x) = U_top(u)
       /\ U_meet(u, U_top(u), x) = x
       /\ U_meet(u, U_bot(u), x) = U_bot(u)
       /\ U_join(u, U_bot(u), x) = x

\* The laws applied in the decreasing universe of the non-positive integers
\* to three values in strictly increasing lattice order, none of them bot or
\* top.
C16_Witness ==
  /\ call.op = "lattice"
  /\ call.u = Universe("ZDec", "SNEG")
  /\ call.strict_order
  /\ U_strict_order(call.u, call.y, call.z)
  /\ {call.x, call.y, call.z} \cap {U_bot(call.u), U_top(call.u)} = {}

(* ---------------------------------------------------------------------- *)
(* C17: cover laws of the Boolean universes                                *)
(* ---------------------------------------------------------------------- *)

\* c is a cover of x among the values vs of u: x is strictly below c and no
\* value lies strictly between them.
Covers(u, vs, x, c) ==
  /\ U_strict_order(u, x, c)
  /\ \A z \in vs : ~(U_strict_order(u, x, z) /\ U_strict_order(u, z, c))

\* C17: in PreB and PreBInc, next(false) = true, next(true) = true,
\* prev(true) = false and prev(false) = false: next(x) is x when x is top and
\* otherwise the only cover of x, prev(x) is x when x is bot and otherwise the
\* only value x covers.
C17_BooleanCovers ==
  (call.op \in {"next", "prev"} /\ call.u \in BoolUniverses) =>
    LET u == call.u
        x == call.x
    IN IF call.op = "next"
       THEN /\ call.res = TRUE
            /\ IF x = U_top(u)
               THEN call.res = x
               ELSE \A c \in BOOLEAN : Covers(u, BOOLEAN, x, c) <=> c = call.res
       ELSE /\ call.res = FALSE
            /\ IF x = U_bot(u)
               THEN call.res = x
               ELSE \A c \in BOOLEAN : Covers(u, BOOLEAN, c, x) <=> c = call.res

\* next(false) in PreB.
C17_Witness ==
  /\ call.op = "next"
  /\ call.u.name = "PreB"
  /\ call.x = FALSE
  /\ call.res = TRUE

(* ---------------------------------------------------------------------- *)
(* C18: next in the integer universes                                      *)
(* ---------------------------------------------------------------------- *)

\* bot() of the integer universe u stands for an infinity: it is the limit of
\* the value type, and the universe is not BOUNDED.
InfiniteBot(u) ==
  /\ u.sign # "BOUNDED"
  /\ U_bot(u) \in {Limits_bot, Limits_top}

\* C18 as stated: for ZIncUniverse and ZDecUniverse of every sign and every
\* value x of the machine integer type, next(x) = x if x = top(), and for
\* every other x next(x) is the unique cover of x and the arithmetic does not
\* overflow.
C18_NextCoversEveryValue ==
  (call.op = "next" /\ call.u \in ZUniverses) =>
    /\ ~call.overflow
    /\ IF call.x = U_top(call.u)
       THEN call.res = call.x
       ELSE \A c \in ValueType : Covers(call.u, ValueType, call.x, c) <=> c = call.res

\* C18, amended: for ZIncUniverse and ZDecUniverse of every sign and every
\* integer x of that sign, the arithmetic does not overflow; next(x) = x if
\* x = top(), and also if x = bot() where bot() stands for an infinity
\* (SIGNED, SNEG increasing, SPOS decreasing); for every other x next(x) is
\* an integer of the sign and the unique cover of x.
C18_NextCoversFiniteValues ==
  (call.op = "next" /\ call.u \in ZUniverses /\ call.x \in Elements(call.u)) =>
    /\ ~call.overflow
    /\ IF call.x = U_top(call.u) \/ (call.x = U_bot(call.u) /\ InfiniteBot(call.u))
       THEN call.res = call.x
       ELSE /\ call.res \in Elements(call.u)
            /\ \A c \in ValueType :
                 Covers(call.u, ValueType, call.x, c) <=> c = call.res

\* next of the infinite bot of the decreasing non-negative integers.
C18_Witness ==
  /\ call.op = "next"
  /\ call.u = Universe("ZDec", "SPOS")
  /\ call.x = Limits_top
  /\ call.res = call.x
  /\ ~call.overflow

(* ---------------------------------------------------------------------- *)
(* ZTotalOrder and the Dual adapter                                        *)
(* ---------------------------------------------------------------------- *)

\* ZTotalOrder<U>: a value of the integer universe U.
ZTotalOrder(u, val) == [u |-> u, val |-> val]

ZTotalOrder_bot(u) == ZTotalOrder(u, U_bot(u))

ZTotalOrder_top(u) == ZTotalOrder(u, U_top(u))

\* ZUniverse::dual_type
dual_type(u) == Universe(IF u.name = "ZInc" THEN "ZDec" ELSE "ZInc", u.sign)

\* ZTotalOrder::dual()
ZTotalOrder_dual(x) == ZTotalOrder(dual_type(x.u), x.val)

\* ZTotalOrder::tell(other): the join, in place.
ZTotalOrder_tell(x, other) ==
  IF U_strict_order(x.u, x.val, other.val) THEN ZTotalOrder(x.u, other.val) ELSE x

\* ZTotalOrder::dtell(other): the meet, in place.
ZTotalOrder_dtell(x, other) ==
  IF U_strict_order(x.u, other.val, x.val) THEN ZTotalOrder(x.u, other.val) ELSE x

\* The members element.join(other) and element.meet(other) a base type T
\* offers to Dual<T>: they update the element in place, as tell and dtell do
\* for a ZTotalOrder.
T_join(x, other) == ZTotalOrder_tell(x, other)

T_meet(x, other) == ZTotalOrder_dtell(x, other)

\* Dual<T>(element)
Dual(element) == [element |-> element]

\* Dual<T>::bot() and Dual<T>::top(), for T the ZTotalOrder of u.
Dual_bot(u) == Dual(ZTotalOrder_top(u))

Dual_top(u) == Dual(ZTotalOrder_bot(u))

\* Dual<T>::join that forwards to the join of T.
Dual_join_same(d, other) == Dual(T_join(d.element, other.element))

\* Dual<T>::join(other) and Dual<T>::meet(other); the value is the adapter
\* after the call.
Dual_join(d, other) == Dual(T_meet(d.element, other.element))

Dual_meet(d, other) == Dual(T_join(d.element, other.element))

\* Dual<Dual<T>>: the adapter applied to the adapter.
DualDual_bot(u) == Dual(Dual_top(u))

DualDual_top(u) == Dual(Dual_bot(u))

DualDual_join(d, other) == Dual(Dual_meet(d.element, other.element))

DualDual_meet(d, other) == Dual(Dual_join(d.element, other.element))

\* bot, top, join and meet of Dual<T> and of Dual<Dual<T>> for T a
\* ZTotalOrder, on two values of the universe.
DualOps ==
  /\ call.op = "none"
  /\ \E u \in ZUniverses : \E x \in Elements(u), y \in Elements(u) :
       LET tx == ZTotalOrder(u, x)
           ty == ZTotalOrder(u, y)
       IN call' = [op |-> "Dual", u |-> u, x |-> tx, y |-> ty,
                   once |-> [value |-> Dual(tx),
                             bot |-> Dual_bot(u),
                             top |-> Dual_top(u),
                             join |-> Dual_join(Dual(tx), Dual(ty)),
                             meet |-> Dual_meet(Dual(tx), Dual(ty))],
                   twice |-> [value |-> Dual(Dual(tx)),
                              bot |-> DualDual_bot(u),
                              top |-> DualDual_top(u),
                              join |-> DualDual_join(Dual(Dual(tx)), Dual(Dual(ty))),
                              meet |-> DualDual_meet(Dual(Dual(tx)), Dual(Dual(ty)))]]
  /\ UNCHANGED env_vars

\* x.dual() and x.dual().dual() of a ZTotalOrder x.
ZDual ==
  /\ call.op = "none"
  /\ \E u \in ZUniverses : \E x \in Elements(u), y \in Elements(u) :
       LET tx == ZTotalOrder(u, x)
       IN call' = [op |-> "dual", u |-> u, x |-> tx, y |-> ZTotalOrder(u, y),
                   once |-> ZTotalOrder_dual(tx),
                   twice |-> ZTotalOrder_dual(ZTotalOrder_dual(tx))]
  /\ UNCHANGED env_vars

NextDual == DualOps \/ ZDual

SpecDual == Init /\ [][NextDual]_vars

(* ---------------------------------------------------------------------- *)
(* C19: the Dual adapter                                                   *)
(* ---------------------------------------------------------------------- *)

MaxWarnings == 2

\* battery::variant<T, error_type>: index 0 holds the data, index 1 the error.
Data(data) == [index |-> 0, data |-> data]

Failure(error) == [index |-> 1, error |-> error]

\* IResult<T, F>: the result and the warnings.
IResult(result, warnings) == [result |-> result, warnings |-> warnings]

\* IResult(T&& data) and IResult(error_type&& error)
IResult_data(data) == IResult(Data(data), <<>>)

IResult_error(error) == IResult(Failure(error), <<>>)

IResult_is_ok(r) == r.result.index = 0

\* T(U): the conversion of the data of an IResult<int, F> to the data of an
\* IResult<bool, F>.
T_of(data) == data # 0

\* IResult::map_result(other)
IResult_map_result(other) ==
  IF other.index = 0 THEN Data(T_of(other.data)) ELSE Failure(other.error)

\* IResult(IResult<U, F>&& map)
IResult_convert(other) == IResult(IResult_map_result(other.result), other.warnings)

\* IResult::map(U&& data2)
IResult_map(r, data2) ==
  LET r2 == IResult_data(data2)
  IN [r2 EXCEPT !.warnings = r.warnings]

\* IResult::push_warning(warning): the result after the push_back.
IResult_push_warning(r, warning) == [r EXCEPT !.warnings = Append(@, warning)]

\* The errors, the warnings and the results the operations are applied to.
Errors == {IError(TRUE, "VarEnv", m, "", Other) : m \in {UndeclaredVariable, UnsupportedFormula}}

Warnings == {IError(FALSE, s, "Approximated", "", Other) : s \in {PreB_name, PreBInc_name}}

WarningLists == UNION {[1..n -> Warnings] : n \in 0..MaxWarnings}

IResults ==
  {IResult(res, ws) : res \in {Data(d) : d \in 0..2} \cup {Failure(e) : e \in Errors},
                      ws \in WarningLists}

\* IResult<bool, F>(std::move(r)) for an IResult<int, F> r.
Convert ==
  /\ call.op = "none"
  /\ \E r \in IResults :
       call' = [op |-> "convert", arg |-> r, res |-> IResult_convert(r)]
  /\ UNCHANGED env_vars

\* std::move(r).map(data2)
Map ==
  /\ call.op = "none"
  /\ \E r \in IResults, data2 \in BOOLEAN :
       call' = [op |-> "map", arg |-> r, data2 |-> data2, res |-> IResult_map(r, data2)]
  /\ UNCHANGED env_vars

\* r.push_warning(warning). The function has no return statement: what the
\* caller gets as the returned reference is undefined, it may or may not
\* refer to r.
PushWarning ==
  /\ call.op = "none"
  /\ \E r \in IResults, w \in Warnings, returned \in {"this", "indeterminate"} :
       /\ Len(r.warnings) < MaxWarnings
       /\ call' = [op |-> "push_warning", arg |-> r, warning |-> w,
                   res |-> IResult_push_warning(r, w), returned |-> returned]
  /\ UNCHANGED env_vars

NextResult == Convert \/ Map \/ PushWarning

SpecResult == Init /\ [][NextResult]_vars

(* ---------------------------------------------------------------------- *)
(* C20: result mapping                                                     *)
(* ---------------------------------------------------------------------- *)

\* C20: the converting constructor and map keep the warnings as they are,
\* turn a result holding data into a result holding the transformed data, and
\* turn a result holding an error into a result holding the same error, never
\* into a result holding data; push_warning changes neither is_ok() nor what
\* the result holds.
C20_MappingKeepsTheArm ==
  /\ call.op \in {"convert", "map"} =>
       /\ call.res.warnings = call.arg.warnings
       /\ IResult_is_ok(call.res) <=> IResult_is_ok(call.arg)
       /\ IResult_is_ok(call.arg) =>
            call.res.result.data =
              IF call.op = "map" THEN call.data2 ELSE T_of(call.arg.result.data)
       /\ ~IResult_is_ok(call.arg) => call.res.result = call.arg.result
  /\ call.op = "push_warning" =>
       /\ IResult_is_ok(call.res) <=> IResult_is_ok(call.arg)
       /\ call.res.result = call.arg.result

(* ---------------------------------------------------------------------- *)
(* PreB: the connectives                                                   *)
(* ---------------------------------------------------------------------- *)

\* The signatures (Sig) the functions of PreB are asked about; LEQ stands for
\* the ones their switches leave to the default case.
Sigs == {"AND", "OR", "IMPLY", "EQUIV", "XOR", "EQ", "NEQ", "NOT", "LEQ"}

PreB_is_supported_fun(sig) == sig \in {"AND", "OR", "IMPLY", "EQUIV", "XOR", "EQ", "NEQ"}

PreB_is_order_preserving(sig) == sig \in {"AND", "OR", "IMPLY", "EQUIV", "XOR", "EQ", "NEQ"}

\* The static_assert at the head of PreB::fun: the instantiations it lets
\* through.
PreB_fun_static_assert(sig) == sig \in {"AND", "OR", "IMPLY", "EQUIV", "XOR"}

\* PreB::fun<sig, dualize>(x, y): the value returned, or none when the
\* instantiation is rejected by the static_assert.
PreB_fun(sig, dualize, x, y) ==
  IF ~PreB_fun_static_assert(sig)
  THEN None
  ELSE CASE sig = "AND" -> Some(IF dualize THEN x \/ y ELSE x /\ y)
         [] sig = "OR" -> Some(IF dualize THEN x /\ y ELSE x \/ y)
         [] sig = "IMPLY" -> Some(IF dualize THEN ~y \/ x ELSE ~x \/ y)
         [] sig \in {"EQUIV", "EQ"} -> Some(x = y)
         [] sig \in {"XOR", "NEQ"} -> Some(x # y)

\* The documented Galois connection of PreB: concretization and abstraction.
gamma(b) == IF b THEN {TRUE, FALSE} ELSE {FALSE}

alpha(S) == TRUE \in S

\* The Galois-connection facts PreB declares.
PreB_flags ==
  [is_totally_ordered |-> TRUE, preserve_bot |-> FALSE, preserve_top |-> TRUE,
   preserve_join |-> TRUE, preserve_meet |-> TRUE,
   injective_concretization |-> TRUE, preserve_concrete_covers |-> TRUE]

\* PreB::is_supported_fun(sig), PreB::is_order_preserving(sig) and
\* PreB::fun<sig, dualize> on two pairs of values.
FunCall ==
  /\ call.op = "none"
  /\ \E sig \in Sigs, dualize \in BOOLEAN :
       \E x \in BOOLEAN, y \in BOOLEAN, x2 \in BOOLEAN, y2 \in BOOLEAN :
         call' = [op |-> "fun", sig |-> sig, dualize |-> dualize,
                  x |-> x, y |-> y, x2 |-> x2, y2 |-> y2,
                  supported |-> PreB_is_supported_fun(sig),
                  order_preserving |-> PreB_is_order_preserving(sig),
                  res |-> PreB_fun(sig, dualize, x, y),
                  res2 |-> PreB_fun(sig, dualize, x2, y2)]
  /\ UNCHANGED env_vars

\* alpha, gamma, join, meet and order of PreB on a set of Booleans and three
\* elements.
Galois ==
  /\ call.op = "none"
  /\ \E S \in SUBSET BOOLEAN : \E b \in BOOLEAN, x \in BOOLEAN, y \in BOOLEAN :
       call' = [op |-> "galois", S |-> S, b |-> b, x |-> x, y |-> y,
                alpha |-> alpha(S), order |-> PreB_order(alpha(S), b),
                join |-> PreB_join(x, y), meet |-> PreB_meet(x, y)]
  /\ UNCHANGED env_vars

NextFun == FunCall \/ Galois

SpecFun == Init /\ [][NextFun]_vars

(* ---------------------------------------------------------------------- *)
(* C21: is_supported_fun                                                   *)
(* ---------------------------------------------------------------------- *)

\* C21: for every signature sig, PreB::is_supported_fun(sig) is true if and
\* only if PreB::fun<sig> can be evaluated on two values; EQ and NEQ, declared
\* supported, are evaluable, and NOT is neither declared supported nor
\* evaluable.
C21_SupportedIffEvaluable ==
  call.op = "fun" =>
    /\ call.supported <=> has_value(call.res)
    /\ call.sig \in {"EQ", "NEQ"} => (call.supported /\ has_value(call.res))
    /\ call.sig = "NOT" => (~call.supported /\ ~has_value(call.res))

(* ---------------------------------------------------------------------- *)
(* C22: is_order_preserving                                                *)
(* ---------------------------------------------------------------------- *)

\* C22: for every signature sig that PreB::is_order_preserving declares and
\* all Booleans x, x2, y, y2 with order(x, x2) and order(y, y2),
\* order(fun<sig>(x, y), fun<sig>(x2, y2)) holds; and every signature declared
\* order preserving is declared supported.
C22_OrderPreservingIsMonotone ==
  (call.op = "fun" /\ ~call.dualize /\ call.order_preserving) =>
    /\ call.supported
    /\ (PreB_order(call.x, call.x2) /\ PreB_order(call.y, call.y2)) =>
         /\ has_value(call.res)
         /\ has_value(call.res2)
         /\ PreB_order(call.res[1], call.res2[1])

(* ---------------------------------------------------------------------- *)
(* C23: implication                                                        *)
(* ---------------------------------------------------------------------- *)

\* C23: PreB::fun<IMPLY, false>(x, y) is true for every x and y, and
\* PreB::fun<IMPLY, true>(x, y) is true exactly when x and y are both true.
C23_ImplicationAsDocumented ==
  (call.op = "fun" /\ call.sig = "IMPLY") =>
    /\ has_value(call.res)
    /\ call.res[1] = IF call.dualize THEN call.x /\ call.y ELSE TRUE

(* ---------------------------------------------------------------------- *)
(* C24: the Galois connection of PreB                                      *)
(* ---------------------------------------------------------------------- *)

\* T covers S among the sets of Booleans.
CoversSet(S, T) ==
  /\ S \subseteq T
  /\ S # T
  /\ \A R \in SUBSET BOOLEAN : (S \subseteq R /\ R \subseteq T) => R \in {S, T}

\* C24: order(alpha(S), b) holds iff S is a subset of gamma(b), for every set
\* S of Booleans and every element b; and PreB declares what gamma does:
\* gamma(join(x, y)) is the union and gamma(meet(x, y)) the intersection of
\* gamma(x) and gamma(y), gamma(top) is the full set, gamma(bot) is not the
\* empty set (preserve_bot is false), gamma is injective, and y covers x iff
\* gamma(y) covers gamma(x).
C24_GaloisConnection ==
  call.op = "galois" =>
    LET x == call.x
        y == call.y
    IN /\ call.order <=> call.S \subseteq gamma(call.b)
       /\ PreB_flags.preserve_join <=> gamma(call.join) = gamma(x) \cup gamma(y)
       /\ PreB_flags.preserve_meet <=> gamma(call.meet) = gamma(x) \cap gamma(y)
       /\ PreB_flags.preserve_top <=> gamma(PreB_top) = BOOLEAN
       /\ PreB_flags.preserve_bot <=> gamma(PreB_bot) = {}
       /\ PreB_flags.injective_concretization <=> (gamma(x) = gamma(y) => x = y)
       /\ PreB_flags.preserve_concrete_covers <=>
            (Covers(Universe("PreB", "BOUNDED"), BOOLEAN, x, y)
               <=> CoversSet(gamma(x), gamma(y)))

\* The set {true} and the element false, which does not abstract it, with two
\* different elements joined, the lower one first.
C24_Witness ==
  /\ call.op = "galois"
  /\ call.S = {TRUE}
  /\ call.b = FALSE
  /\ ~call.order
  /\ call.x = FALSE
  /\ call.y = TRUE

(* ---------------------------------------------------------------------- *)
(* ZTotalOrder: interpret and deinterpret                                  *)
(* ---------------------------------------------------------------------- *)

ZDec_sig_order == "LEQ"

ZDec_sig_strict_order == "LT"

ZInc_sig_order == "GEQ"

ZInc_sig_strict_order == "GT"

U_sig_order(u) == IF u.name = "ZInc" THEN ZInc_sig_order ELSE ZDec_sig_order

U_sig_strict_order(u) ==
  IF u.name = "ZInc" THEN ZInc_sig_strict_order ELSE ZDec_sig_strict_order

\* ZDecUniverse::check: the condition it asserts.
ZDec_check(sign, i) ==
  CASE sign = "SIGNED" ->
         ZDec_strict_order(ZDec_bot(sign), i) /\ ZDec_strict_order(i, ZDec_top(sign))
    [] sign = "SNEG" ->
         ZDec_order(ZDec_top(sign), i) /\ ZDec_strict_order(i, ZDec_bot(sign))
    [] sign = "SPOS" ->
         ZDec_strict_order(ZDec_bot(sign), i) /\ ZDec_order(i, ZDec_top(sign))
    [] OTHER -> TRUE

\* ZIncUniverse::check: the condition it asserts.
ZInc_check(sign, i) ==
  CASE sign = "SIGNED" ->
         ZInc_strict_order(ZInc_bot(sign), i) /\ ZInc_strict_order(i, ZInc_top(sign))
    [] sign = "SNEG" ->
         ZInc_strict_order(ZInc_bot(sign), i) /\ ZInc_order(i, ZInc_top(sign))
    [] sign = "SPOS" ->
         ZInc_order(ZInc_bot(sign), i) /\ ZInc_strict_order(i, ZInc_top(sign))
    [] OTHER -> TRUE

U_check(u, i) == IF u.name = "ZInc" THEN ZInc_check(u.sign, i) ELSE ZDec_check(u.sign, i)

\* The approximation kinds of a formula.
Approxs == {"EXACT", "UNDER", "OVER"}

\* The formulas given to ZTotalOrder::interpret and made by deinterpret: the
\* constants, a declaration of some type, a predicate `x <op> z` on a variable
\* and an integer, and anything else; each carries its approximation kind.
ZConst(b, approx) == [tag |-> "B", b |-> b, approx |-> approx]

ZExists(ty, approx) == [tag |-> "E", ty |-> ty, approx |-> approx]

make_v_op_z(op, z, approx) == [tag |-> "v_op_z", op |-> op, z |-> z, approx |-> approx]

ZOther(approx) == [tag |-> "other", approx |-> approx]

is_v_op_z(f, op) == f.tag = "v_op_z" /\ f.op = op

ZOps == {"GEQ", "GT", "LEQ", "LT", "EQ", "NEQ"}

ZFormulas ==
  UNION { {ZConst(b, a) : b \in BOOLEAN}
          \cup {ZExists(ty, a) : ty \in {"Int", "Real", "Bool"}}
          \cup {make_v_op_z(op, z, a) : op \in ZOps, z \in ValueType}
          \cup {ZOther(a)} : a \in Approxs }

\* What a call that builds an element gives: the program aborted on an
\* assertion, or an optional element.
ZResult(aborts, opt) == [aborted |-> aborts, opt |-> opt]

\* The checking constructor ZTotalOrder(i): the assertion of U::check is
\* compiled in unless the build defines NDEBUG.
ZTotalOrder_checked(ndebug, u, i) ==
  IF ~ndebug /\ ~U_check(u, i)
  THEN ZResult(TRUE, None)
  ELSE ZResult(FALSE, Some(ZTotalOrder(u, i)))

\* ZTotalOrder::interpret that treats every formula as EXACT.
ZTotalOrder_interpret_exact(ndebug, u, f) ==
  CASE f.tag = "B" -> ZResult(FALSE, Some(IF f.b THEN ZTotalOrder_bot(u) ELSE ZTotalOrder_top(u)))
    [] f.tag = "E" ->
         ZResult(FALSE, IF f.ty = "Int" THEN Some(ZTotalOrder_bot(u)) ELSE None)
    [] is_v_op_z(f, U_sig_order(u)) -> ZTotalOrder_checked(ndebug, u, f.z)
    [] is_v_op_z(f, U_sig_strict_order(u)) -> ZTotalOrder_checked(ndebug, u, U_next(u, f.z))
    [] OTHER -> ZResult(FALSE, None)

\* ZTotalOrder::interpret(f)
ZTotalOrder_interpret(ndebug, u, f) ==
  CASE f.tag = "B" -> ZResult(FALSE, Some(IF f.b THEN ZTotalOrder_bot(u) ELSE ZTotalOrder_top(u)))
    [] f.tag = "E" ->
         ZResult(FALSE,
                 IF f.ty = "Int" \/ (f.ty = "Real" /\ f.approx = "UNDER")
                 THEN Some(ZTotalOrder_bot(u))
                 ELSE None)
    [] is_v_op_z(f, U_sig_order(u)) -> ZTotalOrder_checked(ndebug, u, f.z)
    [] is_v_op_z(f, U_sig_strict_order(u)) -> ZTotalOrder_checked(ndebug, u, U_next(u, f.z))
    [] is_v_op_z(f, "NEQ") /\ f.approx = "UNDER" ->
         ZTotalOrder_checked(ndebug, u, U_next(u, f.z))
    [] is_v_op_z(f, "EQ") /\ f.approx = "OVER" -> ZTotalOrder_checked(ndebug, u, f.z)
    [] OTHER -> ZResult(FALSE, None)

ZTotalOrder_is_top(a) == a.val = U_top(a.u)

ZTotalOrder_is_bot(a) == a.val = U_bot(a.u)

\* ZTotalOrder::deinterpret that makes the strict predicate.
ZTotalOrder_deinterpret_strict(a) ==
  IF ZTotalOrder_is_top(a) THEN ZConst(FALSE, "EXACT")
  ELSE IF ZTotalOrder_is_bot(a) THEN ZConst(TRUE, "EXACT")
  ELSE make_v_op_z(U_sig_strict_order(a.u), a.val, "EXACT")

\* ZTotalOrder::deinterpret(x)
ZTotalOrder_deinterpret(a) ==
  IF ZTotalOrder_is_top(a) THEN ZConst(FALSE, "EXACT")
  ELSE IF ZTotalOrder_is_bot(a) THEN ZConst(TRUE, "EXACT")
  ELSE make_v_op_z(U_sig_order(a.u), a.val, "EXACT")

\* ZInc<int> and ZDec<int>, the lattices over the signed integers.
SignedUniverses == {Universe(n, "SIGNED") : n \in {"ZInc", "ZDec"}}

\* interpret(f), followed by deinterpret of the element when there is one.
ZInterpret ==
  /\ call.op = "none"
  /\ \E ndebug \in BOOLEAN, u \in SignedUniverses, f \in ZFormulas :
       LET r == ZTotalOrder_interpret(ndebug, u, f)
       IN call' = [op |-> "interpret", u |-> u, ndebug |-> ndebug, f |-> f, res |-> r,
                   back |-> IF has_value(r.opt)
                            THEN Some(ZTotalOrder_deinterpret(r.opt[1]))
                            ELSE None]
  /\ UNCHANGED env_vars

\* a.deinterpret(x) of an element a, followed by interpret of the formula.
ZDeinterpret ==
  /\ call.op = "none"
  /\ \E ndebug \in BOOLEAN, u \in SignedUniverses, val \in ValueType :
       LET a == ZTotalOrder(u, val)
           f == ZTotalOrder_deinterpret(a)
       IN call' = [op |-> "deinterpret", u |-> u, ndebug |-> ndebug, a |-> a, f |-> f,
                   back |-> ZTotalOrder_interpret(ndebug, u, f)]
  /\ UNCHANGED env_vars

NextInterpret == ZInterpret \/ ZDeinterpret

SpecInterpret == Init /\ [][NextInterpret]_vars

\* The integer k is strictly between the bot and top sentinels of u.
Between(u, k) == U_strict_order(u, U_bot(u), k) /\ U_strict_order(u, k, U_top(u))

\* The integer one step up from k in u: k + 1 in the increasing lattice and
\* k - 1 in the decreasing one.
Step(u, k) == IF u.name = "ZInc" THEN k + 1 ELSE k - 1

\* The predicate signatures of the opposite direction of u.
OppositeOps(u) == IF u.name = "ZInc" THEN {"LEQ", "LT"} ELSE {"GEQ", "GT"}

Interpreted_as(u, k) == ZResult(FALSE, Some(ZTotalOrder(u, k)))

Rejected == ZResult(FALSE, None)

(* ---------------------------------------------------------------------- *)
(* C25: approximation-aware interpretation                                 *)
(* ---------------------------------------------------------------------- *)

\* C25 as stated: in the increasing lattice `x >= k` is interpreted as k and
\* `x > k` as k+1 under every approximation, `x != k` as k+1 only under UNDER
\* and `x == k` as k only under OVER, both rejected otherwise, and `x <= k`,
\* `x < k` are rejected under every approximation; the decreasing lattice is
\* the mirror image with k-1; for every integer k.
C25_InterpretEveryInteger ==
  (call.op = "interpret" /\ call.f.tag = "v_op_z") =>
    LET u == call.u
        f == call.f
        k == f.z
    IN /\ f.op = U_sig_order(u) => call.res = Interpreted_as(u, k)
       /\ f.op = U_sig_strict_order(u) => call.res = Interpreted_as(u, Step(u, k))
       /\ f.op = "NEQ" =>
            call.res = IF f.approx = "UNDER" THEN Interpreted_as(u, Step(u, k)) ELSE Rejected
       /\ f.op = "EQ" =>
            call.res = IF f.approx = "OVER" THEN Interpreted_as(u, k) ELSE Rejected
       /\ f.op \in OppositeOps(u) => call.res = Rejected

\* C25: the same, for the integers where the element made is strictly between
\* the bot and top sentinels: k where k is the element, k and k+1 (k-1 in the
\* decreasing lattice) where the element is one step from k; the rejections
\* hold for every k.
C25_ApproximationAwareInterpret ==
  (call.op = "interpret" /\ call.f.tag = "v_op_z") =>
    LET u == call.u
        f == call.f
        k == f.z
        same == Between(u, k)
        step == Between(u, k) /\ Between(u, Step(u, k))
    IN /\ (f.op = U_sig_order(u) /\ same) => call.res = Interpreted_as(u, k)
       /\ (f.op = U_sig_strict_order(u) /\ step) =>
            call.res = Interpreted_as(u, Step(u, k))
       /\ (f.op = "NEQ" /\ f.approx = "UNDER" /\ step) =>
            call.res = Interpreted_as(u, Step(u, k))
       /\ (f.op = "NEQ" /\ f.approx # "UNDER") => call.res = Rejected
       /\ (f.op = "EQ" /\ f.approx = "OVER" /\ same) => call.res = Interpreted_as(u, k)
       /\ (f.op = "EQ" /\ f.approx # "OVER") => call.res = Rejected
       /\ f.op \in OppositeOps(u) => call.res = Rejected

\* An under-approximated `x != k` made one step from k, in the decreasing
\* lattice of a build that asserts.
C25_Witness ==
  /\ call.op = "interpret"
  /\ call.u.name = "ZDec"
  /\ ~call.ndebug
  /\ is_v_op_z(call.f, "NEQ")
  /\ call.f.approx = "UNDER"
  /\ Between(call.u, call.f.z)
  /\ call.res = Interpreted_as(call.u, call.f.z - 1)

(* ---------------------------------------------------------------------- *)
(* C26: interpret and deinterpret                                          *)
(* ---------------------------------------------------------------------- *)

\* The parts of C26 about bot, top and interpret(deinterpret(a)).
RoundTripOfElements ==
  call.op = "deinterpret" =>
    /\ ZTotalOrder_is_bot(call.a) => call.f = ZConst(TRUE, "EXACT")
    /\ ZTotalOrder_is_top(call.a) => call.f = ZConst(FALSE, "EXACT")
    /\ call.back = ZResult(FALSE, Some(call.a))

\* C26 as stated: for every integer k strictly between the bot and top
\* sentinels, deinterpret(interpret(`x <order-op> k`)) is `x <order-op> k` and
\* the strict form `x <strict-op> k` deinterprets to the non-strict formula on
\* next(k); bot deinterprets to true and top to false, and
\* interpret(deinterpret(a)) = a for every element a.
C26_RoundTripBetweenSentinels ==
  /\ RoundTripOfElements
  /\ (call.op = "interpret" /\ call.f.tag = "v_op_z" /\ Between(call.u, call.f.z)) =>
       LET u == call.u
           f == call.f
       IN /\ f.op = U_sig_order(u) =>
               call.back = Some(make_v_op_z(U_sig_order(u), f.z, "EXACT"))
          /\ f.op = U_sig_strict_order(u) =>
               call.back = Some(make_v_op_z(U_sig_order(u), U_next(u, f.z), "EXACT"))

\* C26: the same, where the strict form is taken for the integers k such that
\* next(k) is strictly between the sentinels too; the formula made is
\* annotated EXACT whatever the approximation of the formula interpreted.
C26_RoundTrip ==
  /\ RoundTripOfElements
  /\ (call.op = "interpret" /\ call.f.tag = "v_op_z" /\ Between(call.u, call.f.z)) =>
       LET u == call.u
           f == call.f
       IN /\ f.op = U_sig_order(u) =>
               call.back = Some(make_v_op_z(U_sig_order(u), f.z, "EXACT"))
          /\ (f.op = U_sig_strict_order(u) /\ Between(u, U_next(u, f.z))) =>
               call.back = Some(make_v_op_z(U_sig_order(u), U_next(u, f.z), "EXACT"))

\* A strict predicate of the increasing lattice, not annotated EXACT, whose
\* element is deinterpreted to the non-strict predicate on the next integer.
C26_Witness ==
  /\ call.op = "interpret"
  /\ call.u.name = "ZInc"
  /\ is_v_op_z(call.f, "GT")
  /\ call.f.approx = "OVER"
  /\ call.back = Some(make_v_op_z("GEQ", call.f.z + 1, "EXACT"))

(* ---------------------------------------------------------------------- *)
(* C27: an interpretation that fails or only reads has no effect           *)
(* ---------------------------------------------------------------------- *)

\* C27: every call of VarEnv::interpret that returns an error, and every
\* successful occurrence of a name or of a handle, leaves the records, their
\* handle lists and the rows of the per-domain index (hence
\* num_abstract_doms()) as they were; an untyped declaration reports the
\* untyped error even when the name is declared with another sort.
C27_FailedOrReadOnlyInterpretHasNoEffect ==
  last.op = "interpret" =>
    /\ (~last.res.ok \/ last.arg.tag \in {"LV", "V"}) =>
         /\ lvars = old.lvars
         /\ avar2lvar = old.avar2lvar
         /\ num_abstract_doms(avar2lvar) = num_abstract_doms(old.avar2lvar)
    /\ (last.arg.tag = "E" /\ last.arg.type = UNTYPED) =>
         last.res = Err(UntypedDeclaration)
    /\ last.arg.tag \notin {"E", "LV", "V"} => last.res = Err(UnsupportedFormula)

\* A declaration rejected for its sort that targets a domain not allocated
\* yet.
C27_Witness ==
  /\ last.op = "interpret"
  /\ last.arg.tag = "E"
  /\ last.res = Err(SortMismatch)
  /\ last.arg.type >= num_abstract_doms(old.avar2lvar)
  /\ num_abstract_doms(avar2lvar) >= 1

(* ---------------------------------------------------------------------- *)
(* ZTotalOrder: tell and dtell with has_changed                            *)
(* ---------------------------------------------------------------------- *)

\* The number of tell and dtell calls made on one element.
MaxTells == 3

\* has_changed after tell(other, has_changed) that stores the outcome of the
\* comparison.
ZTotalOrder_tell_has_changed_reset(x, other, has_changed) ==
  U_strict_order(x.u, x.val, other.val)

\* has_changed after x.tell(other, has_changed)
ZTotalOrder_tell_has_changed(x, other, has_changed) ==
  IF U_strict_order(x.u, x.val, other.val) THEN TRUE ELSE has_changed

\* has_changed after x.dtell(other, has_changed)
ZTotalOrder_dtell_has_changed(x, other, has_changed) ==
  IF U_strict_order(x.u, other.val, x.val) THEN TRUE ELSE has_changed

\* The element and the flag of the caller after a call, with the argument of
\* the call and what the element and the flag were before it.
Told(op, x, has_changed, other, before, changed_before, n) ==
  [op |-> op, x |-> x, has_changed |-> has_changed, other |-> other,
   before |-> before, changed_before |-> changed_before, n |-> n]

\* ZInc<int> x(val) or ZDec<int> x(val), or bot() or top(), with a flag of the
\* caller.
NewElement ==
  /\ call.op = "none"
  /\ \E u \in SignedUniverses, val \in ValueType, has_changed \in BOOLEAN :
       LET x == ZTotalOrder(u, val)
       IN call' = Told("new", x, has_changed, x, x, has_changed, 0)
  /\ UNCHANGED env_vars

\* x.tell(other, has_changed)
Tell ==
  /\ call.op \in {"new", "tell", "dtell"}
  /\ call.n < MaxTells
  /\ \E val \in ValueType :
       LET other == ZTotalOrder(call.x.u, val)
       IN call' = Told("tell", ZTotalOrder_tell(call.x, other),
                       ZTotalOrder_tell_has_changed(call.x, other, call.has_changed),
                       other, call.x, call.has_changed, call.n + 1)
  /\ UNCHANGED env_vars

\* x.dtell(other, has_changed)
Dtell ==
  /\ call.op \in {"new", "tell", "dtell"}
  /\ call.n < MaxTells
  /\ \E val \in ValueType :
       LET other == ZTotalOrder(call.x.u, val)
       IN call' = Told("dtell", ZTotalOrder_dtell(call.x, other),
                       ZTotalOrder_dtell_has_changed(call.x, other, call.has_changed),
                       other, call.x, call.has_changed, call.n + 1)
  /\ UNCHANGED env_vars

NextTell == NewElement \/ Tell \/ Dtell

SpecTell == Init /\ [][NextTell]_vars

(* ---------------------------------------------------------------------- *)
(* C28: monotone tell                                                      *)
(* ---------------------------------------------------------------------- *)

\* C28: tell(other, has_changed) leaves the element equal to
\* join(old value, other), so at or above the old value in the lattice order;
\* has_changed is true after the call exactly when it was true before or the
\* value strictly increased, so it is never reset; telling the same value
\* again changes neither the element nor has_changed; dtell is the mirror
\* image with meet and the reverse order.
C28_MonotoneTell ==
  LET u == call.x.u
      was == call.before.val
      now == call.x.val
  IN /\ call.op = "tell" =>
          /\ now = U_join(u, was, call.other.val)
          /\ U_order(u, was, now)
          /\ call.has_changed <=> (call.changed_before \/ U_strict_order(u, was, now))
          /\ ZTotalOrder_tell(call.x, call.other) = call.x
          /\ ZTotalOrder_tell_has_changed(call.x, call.other, call.has_changed)
               = call.has_changed
     /\ call.op = "dtell" =>
          /\ now = U_meet(u, was, call.other.val)
          /\ U_order(u, now, was)
          /\ call.has_changed <=> (call.changed_before \/ U_strict_order(u, now, was))
          /\ ZTotalOrder_dtell(call.x, call.other) = call.x
          /\ ZTotalOrder_dtell_has_changed(call.x, call.other, call.has_changed)
               = call.has_changed

\* A third tell that does not raise the element, has_changed being true from
\* an earlier one.
C28_Witness ==
  /\ call.op = "tell"
  /\ call.n = MaxTells
  /\ call.x = call.before
  /\ U_strict_order(call.x.u, call.other.val, call.x.val)
  /\ call.changed_before
  /\ call.has_changed

====
